---- MODULE Spec2Model ----
(***************************************************************************)
(* Model of news_scraper: the GenAI analysis engine                        *)
(* (src/src/news_scraper/core/genai.py): context limit of a model,         *)
(* token-bounded chunking, per-chunk analysis and the merge of the partial *)
(* analyses; the concurrent scraper (core/scraper.py); and the shared      *)
(* browser toolkit (core/toolkits.py).                                     *)
(*                                                                         *)
(* Strings are sequences of characters.  A fixed message of the source is  *)
(* a one-element sequence holding the whole literal.  A Python value that  *)
(* may be a str or None is a record [t |-> "str", v |-> chars] or          *)
(* [t |-> "none", v |-> <<>>].                                             *)
(***************************************************************************)
EXTENDS Integers, Sequences, FiniteSets, TLC

VARIABLES
    pc,            \* position of the call being modelled
    content,       \* analyze_article_content / chunk_content argument
    max_tokens,    \* model context limit handed to chunk_content
    chunks,        \* list returned by chunk_content
    idx,           \* loop variable i of analyze_article_content
    summaries,     \* summaries list (analyze_article_content, merge_chunk_analyses)
    topics_lists,  \* topics_lists list
    responses,     \* responses the analysis capability gave, by chunk position
    synth_response,\* response the synthesis capability gave, "none" before
    synth_prompt,  \* combined_summary handed to the synthesis call
    analyze_calls, \* number of analysis calls issued
    synth_calls,   \* number of synthesis calls issued
    result,        \* returned (summary, topics) pair
    exc,           \* exception that escaped the call, "none" otherwise
    chunk_calls,   \* number of calls of chunk_content by analyze_article_content
    analysis_log,  \* the analysis calls issued so far: text, index, total
    cancelled_at,  \* external calls issued when the call was cancelled, -1 before
    frames,        \* the locals of each of several concurrent invocations
    \* get_model_context_limit
    model_id,      \* the model argument
    limit_out,     \* the returned limit, 0 before the call
    warnings,      \* number of logger.warning calls
    \* NewsScraper
    urls,                     \* argument of scrape_urls
    max_concurrent_requests,  \* settings.max_concurrent_requests
    semaphore,                \* free permits of self.semaphore
    task_pc,                  \* position of each scrape_url task
    task_result,              \* what each scrape_url task returned
    task_log,                 \* calls made and outcomes met by each task
    completion_order,         \* the tasks in the order they completed
    rate_limit_delay,         \* settings.rate_limit_delay
    scrape_result,            \* list returned by scrape_urls
    \* ToolkitManager
    cls_toolkit,    \* ToolkitManager._toolkit
    cls_browser,    \* ToolkitManager._browser, 0 for None
    cls_playwright, \* ToolkitManager._playwright, 0 for None
    lock_holder,    \* the caller holding ToolkitManager._lock, 0 when free
    lock_acquisitions, \* times ToolkitManager._lock was acquired
    caller_pc,      \* position of each get_toolkit call
    caller_ret,     \* what each get_toolkit call returned
    starts,         \* Playwright instances started
    launches,       \* browsers launched
    playwright_state, \* of each Playwright started: running, stopping, stopped
    browser_state,    \* of each browser launched: running, closing, closed
    caller_target,    \* the instance a close_browser call is closing or stopping
    \* ChromaDBClient
    chunk_input,    \* the text argument of _chunk_text
    chunk_limit,    \* the max_tokens argument of _chunk_text
    text_chunks,    \* list returned by _chunk_text
    collection,     \* the records of self._collection, in the order added
    store_log       \* the articles given to store_article and what it returned

\* the variables of one invocation of an analysis function
soloVars == <<content, max_tokens, chunks, idx, summaries, topics_lists,
              responses, synth_response, synth_prompt, analyze_calls,
              synth_calls, result, exc, chunk_calls, analysis_log,
              cancelled_at>>
genaiVars == <<soloVars, frames>>
limitVars == <<model_id, limit_out, warnings>>
scraperVars == <<urls, max_concurrent_requests, semaphore, task_pc,
                 task_result, task_log, completion_order, rate_limit_delay,
                 scrape_result>>
toolkitVars == <<cls_toolkit, cls_browser, cls_playwright, lock_holder,
                 lock_acquisitions,
                 caller_pc, caller_ret, starts, launches, playwright_state,
                 browser_state, caller_target>>

chromaVars == <<chunk_input, chunk_limit, text_chunks, collection, store_log>>

\* what the actions of genai.py's analysis functions leave alone
otherVars == <<limitVars, scraperVars, toolkitVars, chromaVars, frames>>

vars == <<pc, genaiVars, limitVars, scraperVars, toolkitVars, chromaVars>>

----------------------------------------------------------------------------
(* Bounds *)

MaxLen == 6          \* longest text given to chunk_content
MaxBudget == 2       \* largest max_tokens - Margin explored
MaxChunkBudget == 4  \* largest max_tokens - Margin given to chunk_content alone
MaxPartials == 3     \* longest partial sequence given to merge_chunk_analyses
MaxDocLen == 7       \* longest document given to analyze_article_content
MaxFrags == 3        \* most fragments put together into a model identifier
MaxUrls == 3         \* longest list given to scrape_urls
MaxPermits == 2      \* largest settings.max_concurrent_requests explored
MaxCallers == 4      \* most concurrent calls of ToolkitManager.get_toolkit
MaxInvocations == 2  \* most concurrent invocations of analyze_article_content
MaxCloseCalls == 3   \* most concurrent calls of get_toolkit and close_browser
MaxFairUrls == 2     \* longest list given to scrape_urls when termination is checked
MaxTextLen == 5      \* longest text given to _chunk_text
MaxChunkTokens == 3  \* largest max_tokens given to _chunk_text
MaxArticles == 2     \* most articles given to store_article
BlockTokens == 4000  \* tokens of the run of letters the character "X" stands for

(* Program constants *)

Margin == 1000       \* genai.py:96 and genai.py:308

Alphabet == {"a", ".", " ", "\n"}
DocAlphabet == {"a", "\n"}      \* documents are paragraphs of one word

----------------------------------------------------------------------------
(* Python string helpers *)

RECURSIVE SeqsUpTo(_, _)
SeqsUpTo(S, n) ==
    IF n = 0 THEN {<<>>}
    ELSE LET shorter == SeqsUpTo(S, n - 1)
         IN shorter \cup {Append(s, x) : s \in {t \in shorter : Len(t) = n - 1}, x \in S}

RECURSIVE Flatten(_)
Flatten(ss) == IF ss = <<>> THEN <<>> ELSE Head(ss) \o Flatten(Tail(ss))

\* sep in s  (substring test)
Contains(s, sep) ==
    \E i \in 1..(Len(s) - Len(sep) + 1) : SubSeq(s, i, i + Len(sep) - 1) = sep

\* s.split(sep) for a non-empty sep: leftmost, non-overlapping matches
RECURSIVE SplitFrom(_, _, _, _)
SplitFrom(s, sep, i, piece) ==
    IF i > Len(s) THEN <<piece>>
    ELSE IF i + Len(sep) - 1 <= Len(s) /\ SubSeq(s, i, i + Len(sep) - 1) = sep
         THEN <<piece>> \o SplitFrom(s, sep, i + Len(sep), <<>>)
         ELSE SplitFrom(s, sep, i + 1, Append(piece, s[i]))

split(s, sep) == SplitFrom(s, sep, 1, <<>>)

ParaSep == <<"\n", "\n">>
SentSep == <<".", " ">>

----------------------------------------------------------------------------
(* count_tokens: tiktoken is an external library; it is modelled by the    *)
(* byte-level encoding, one token per character.                           *)

count_tokens(text) == Len(text)

----------------------------------------------------------------------------
(* chunk_content *)

\* the inner "for sentence in sentences" loop; st = [chunks, temp_chunk]
RECURSIVE SentenceLoop(_, _, _)
SentenceLoop(sentences, safe_token_limit, st) ==
    IF sentences = <<>> THEN st
    ELSE LET sentence == Head(sentences)
             test_sentence ==
                 st.temp_chunk
                   \o (IF st.temp_chunk # <<>> THEN SentSep ELSE <<>>)
                   \o sentence
             next ==
                 IF count_tokens(test_sentence) <= safe_token_limit
                 THEN [chunks |-> st.chunks, temp_chunk |-> test_sentence]
                 ELSE [chunks |-> IF st.temp_chunk # <<>>
                                  THEN Append(st.chunks, st.temp_chunk)
                                  ELSE st.chunks,
                       temp_chunk |-> sentence]
         IN SentenceLoop(Tail(sentences), safe_token_limit, next)

\* the iteration with "<" for "<=" in the test of the joined buffer
ParagraphStepStrict(paragraph, safe_token_limit, st) ==
    LET test_chunk ==
            st.current_chunk
              \o (IF st.current_chunk # <<>> THEN ParaSep ELSE <<>>)
              \o paragraph
    IN IF count_tokens(test_chunk) < safe_token_limit
       THEN [chunks |-> st.chunks, current_chunk |-> test_chunk]
       ELSE LET saved ==
                    IF st.current_chunk # <<>>
                    THEN [chunks |-> Append(st.chunks, st.current_chunk),
                          current_chunk |-> paragraph]
                    ELSE st
            IN IF count_tokens(paragraph) > safe_token_limit
               THEN LET r == SentenceLoop(split(paragraph, SentSep),
                                          safe_token_limit,
                                          [chunks |-> saved.chunks,
                                           temp_chunk |-> <<>>])
                    IN [chunks |-> r.chunks,
                        current_chunk |-> IF r.temp_chunk # <<>>
                                          THEN r.temp_chunk
                                          ELSE saved.current_chunk]
               ELSE [chunks |-> saved.chunks, current_chunk |-> paragraph]

\* one iteration of "for paragraph in paragraphs"; st = [chunks, current_chunk]
ParagraphStep(paragraph, safe_token_limit, st) ==
    LET test_chunk ==
            st.current_chunk
              \o (IF st.current_chunk # <<>> THEN ParaSep ELSE <<>>)
              \o paragraph
    IN IF count_tokens(test_chunk) <= safe_token_limit
       THEN [chunks |-> st.chunks, current_chunk |-> test_chunk]
       ELSE LET saved ==
                    IF st.current_chunk # <<>>
                    THEN [chunks |-> Append(st.chunks, st.current_chunk),
                          current_chunk |-> paragraph]
                    ELSE st
            IN IF count_tokens(paragraph) > safe_token_limit
               THEN LET r == SentenceLoop(split(paragraph, SentSep),
                                          safe_token_limit,
                                          [chunks |-> saved.chunks,
                                           temp_chunk |-> <<>>])
                    IN [chunks |-> r.chunks,
                        current_chunk |-> IF r.temp_chunk # <<>>
                                          THEN r.temp_chunk
                                          ELSE saved.current_chunk]
               ELSE [chunks |-> saved.chunks, current_chunk |-> paragraph]

RECURSIVE ParagraphLoop(_, _, _)
ParagraphLoop(paragraphs, safe_token_limit, st) ==
    IF paragraphs = <<>> THEN st
    ELSE ParagraphLoop(Tail(paragraphs), safe_token_limit,
                       ParagraphStep(Head(paragraphs), safe_token_limit, st))

\* chunk_content without the final "add the last chunk" step
chunk_content_no_flush(text, maxTokens) ==
    ParagraphLoop(split(text, ParaSep), maxTokens - Margin,
                  [chunks |-> <<>>, current_chunk |-> <<>>]).chunks

chunk_content(text, maxTokens) ==
    LET safe_token_limit == maxTokens - Margin
        st == ParagraphLoop(split(text, ParaSep), safe_token_limit,
                            [chunks |-> <<>>, current_chunk |-> <<>>])
    IN IF st.current_chunk # <<>>
       THEN Append(st.chunks, st.current_chunk)
       ELSE st.chunks

----------------------------------------------------------------------------
(* Python values and more string helpers *)

Str(chars) == [t |-> "str", v |-> chars]
NoneV == [t |-> "none", v |-> <<>>]
Missing == [t |-> "missing", v |-> <<>>]     \* key absent from a JSON object
List(items) == [t |-> "list", v |-> items]

IsSpace(c) == c \in {" ", "\n"}

RECURSIVE lstrip(_)
lstrip(s) == IF s # <<>> /\ IsSpace(Head(s)) THEN lstrip(Tail(s)) ELSE s

RECURSIVE rstrip(_)
rstrip(s) ==
    IF s # <<>> /\ IsSpace(s[Len(s)]) THEN rstrip(SubSeq(s, 1, Len(s) - 1)) ELSE s

\* str.strip()
strip(s) == rstrip(lstrip(s))

UpperToLower ==
    [A |-> "a", B |-> "b", C |-> "c", D |-> "d", E |-> "e", F |-> "f",
     G |-> "g", H |-> "h", I |-> "i", J |-> "j", K |-> "k", L |-> "l",
     M |-> "m", N |-> "n", O |-> "o", P |-> "p", Q |-> "q", R |-> "r",
     S |-> "s", T |-> "t", U |-> "u", V |-> "v", W |-> "w", X |-> "x",
     Y |-> "y", Z |-> "z"]

LowerChar(c) == IF c \in DOMAIN UpperToLower THEN UpperToLower[c] ELSE c

\* str.lower()
lower(s) == [i \in 1..Len(s) |-> LowerChar(s[i])]

\* sep.join(parts) for a sequence of strings
RECURSIVE join(_, _)
join(sep, parts) ==
    IF parts = <<>> THEN <<>>
    ELSE IF Len(parts) = 1 THEN parts[1]
    ELSE parts[1] \o sep \o join(sep, Tail(parts))

\* f"{value}" of a str or None
Format(value) == IF value.t = "str" THEN value.v ELSE <<"None">>

----------------------------------------------------------------------------
(* Responses of the external capability (client.chat.completions.create)   *)

LabelAI == <<"A", "I">>
Labelai == <<"a", "i">>
LabelP == <<" ", "P", " ">>
Labelp == <<"p">>

Response(kind, summary, topics) ==
    [kind |-> kind, summary |-> summary, topics |-> topics]

\* what an analysis call can yield: it raises, its message content is None,
\* its content is not JSON, or its content is a JSON object
AnalysisResponses ==
    { Response("raise", Missing, Missing),
      Response("content_none", Missing, Missing),
      Response("json", Str(<<"x">>), List(<<LabelAI>>)),
      Response("json", Str(<<" ", "y">>), List(<<Labelai, LabelP, <<" ">> >>)),
      Response("json", NoneV, List(<<Labelp>>)),
      Response("json", Str(<<"z">>), NoneV),
      Response("json", Missing, Missing) }

\* what a synthesis call can yield: it raises, or message content is a
\* string (possibly empty) or None
SynthResponses ==
    { Response("raise", Missing, Missing),
      Response("content", Str(<<"f", " ">>), Missing),
      Response("content", Str(<<>>), Missing),
      Response("content", NoneV, Missing) }

NoResponse == Response("none", Missing, Missing)

\* [topic.strip() for topic in topics if topic.strip()]
RECURSIVE StripTopics(_)
StripTopics(topics) ==
    IF topics = <<>> THEN <<>>
    ELSE (IF strip(Head(topics)) # <<>> THEN <<strip(Head(topics))>> ELSE <<>>)
           \o StripTopics(Tail(topics))

Analysis(summary, topics) == [summary |-> summary, topics |-> topics]

----------------------------------------------------------------------------
(* analyze_article_chunk *)

\* the try body raises: the call raised, content is None (ValueError), or
\* "topics" is null (iterating None is a TypeError)
ChunkAnalysisFails(resp) ==
    \/ resp.kind \in {"raise", "content_none"}
    \/ resp.kind = "json" /\ resp.topics.t = "none"

ChunkPlaceholder(chunk_index) ==
    <<"Could not generate summary for part ", ToString(chunk_index + 1), ".">>

analyze_article_chunk(resp, chunk_index) ==
    IF ChunkAnalysisFails(resp)
    THEN Analysis(Str(ChunkPlaceholder(chunk_index)), <<>>)
    ELSE Analysis(IF resp.summary.t = "missing"
                  THEN Str(<<"No summary available.">>)
                  ELSE resp.summary,
                  StripTopics(IF resp.topics.t = "missing"
                              THEN <<>> ELSE resp.topics.v))

----------------------------------------------------------------------------
(* analyze_single_article *)

\* the try body raises: as above, or a key is absent (KeyError)
SingleAnalysisFails(resp) ==
    \/ resp.kind \in {"raise", "content_none"}
    \/ resp.kind = "json" /\ resp.summary.t = "missing"
    \/ resp.kind = "json" /\ resp.topics.t = "missing"

analyze_single_article(resp) ==
    IF SingleAnalysisFails(resp)
    THEN Analysis(Str(<<"Could not generate summary.">>), <<>>)
    ELSE Analysis(IF resp.summary.t = "none" \/ resp.summary.v = <<>>
                  THEN Str(<<"No summary available.">>)
                  ELSE resp.summary,
                  StripTopics(IF resp.topics.t = "none"
                              THEN <<>> ELSE resp.topics.v))

----------------------------------------------------------------------------
(* merge_chunk_analyses *)

\* combined_summary numbering the sections from 0
combined_summary_zero_based(sums) ==
    join(ParaSep,
         [i \in 1..Len(sums) |->
             <<"Section ", ToString(i - 1), ": ">> \o Format(sums[i])])

\* "\n\n".join(f"Section {i+1}: {summary}" ...)
combined_summary(sums) ==
    join(ParaSep,
         [i \in 1..Len(sums) |->
             <<"Section ", ToString(i), ": ">> \o Format(sums[i])])

\* UniqueLoop comparing the labels as spelled instead of lowercased
RECURSIVE UniqueLoopExact(_, _, _)
UniqueLoopExact(all_topics, seen, unique_topics) ==
    IF all_topics = <<>> THEN unique_topics
    ELSE LET topic == Head(all_topics)
         IN IF topic \notin seen
            THEN UniqueLoopExact(Tail(all_topics), seen \cup {topic},
                                 Append(unique_topics, topic))
            ELSE UniqueLoopExact(Tail(all_topics), seen, unique_topics)

\* the "remove duplicates while preserving order" loop
RECURSIVE UniqueLoop(_, _, _)
UniqueLoop(all_topics, seen, unique_topics) ==
    IF all_topics = <<>> THEN unique_topics
    ELSE LET topic == Head(all_topics)
             topic_lower == lower(topic)
         IN IF topic_lower \notin seen
            THEN UniqueLoop(Tail(all_topics), seen \cup {topic_lower},
                            Append(unique_topics, topic))
            ELSE UniqueLoop(Tail(all_topics), seen, unique_topics)

merge_topics(tlists) == UniqueLoop(Flatten(tlists), {}, <<>>)

\* " ".join(summaries) raises TypeError when an item is not a str
JoinRaises(sums) == \E i \in 1..Len(sums) : sums[i].t # "str"

NaiveJoin(sums) == join(<<" ">>, [i \in 1..Len(sums) |-> sums[i].v])

\* final_summary after the try/except around the synthesis call
final_summary(resp, sums) ==
    IF resp.kind = "raise"
    THEN NaiveJoin(sums)
    ELSE IF resp.summary.t = "none" \/ resp.summary.v = <<>>
         THEN <<"Could not generate final summary.">>
         ELSE resp.summary.v

EmptyMergeResult == Analysis(Str(<<"Could not generate summary.">>), <<>>)

\* MergeEnter without the "if not summaries" early return
MergeEnterAlwaysSynth(sums) ==
    /\ pc' = "synth_await"
    /\ synth_calls' = synth_calls + 1
    /\ synth_prompt' = combined_summary(sums)
    /\ UNCHANGED result

\* merge_chunk_analyses up to its await: returns at once for no summaries,
\* otherwise builds the prompt and issues the synthesis call
MergeEnter(sums) ==
    IF sums = <<>>
    THEN /\ pc' = "done"
         /\ result' = EmptyMergeResult
         /\ UNCHANGED <<synth_calls, synth_prompt>>
    ELSE /\ pc' = "synth_await"
         /\ synth_calls' = synth_calls + 1
         /\ synth_prompt' = combined_summary(sums)
         /\ UNCHANGED result

----------------------------------------------------------------------------
(* analyze_article_content, one action per stretch between two awaits *)

NoResult == Analysis(NoneV, <<>>)
RaiseResponse == Response("raise", Missing, Missing)

\* context limits handed to chunk_content: the limits of the model table
\* (4096 and more) are scaled down to Margin + 1 .. Margin + MaxBudget, so
\* that texts of a few characters fall on both sides of the budget
Budgets == {Margin + b : b \in 1..MaxBudget}

\* an entry of analysis_log: the text sent, and the index and total that
\* analyze_article_chunk is given (0 of 1 for analyze_single_article)
\* an analysis call told the number of chunks seen so far, not the final one
AnalysisCallRunningTotal(fn, text, index, total) ==
    [fn |-> fn, text |-> text, index |-> index, total |-> index + 1]

\* one call of an analysis function and its arguments
AnalysisCall(fn, text, index, total) ==
    [fn |-> fn, text |-> text, index |-> index, total |-> total]

\* the path test with "<" for "<="
fits_single_request_strict(total_tokens, maxTokens) ==
    total_tokens < maxTokens - Margin

\* "if total_tokens <= max_tokens - 1000"
fits_single_request(total_tokens, maxTokens) ==
    total_tokens <= maxTokens - Margin

\* the chunk loop leaving one chunk early
loop_continues_short(i, cs) == i + 2 < Len(cs)

\* "for i, chunk in enumerate(chunks)": another chunk follows chunk i
loop_continues(i, cs) == i + 1 < Len(cs)

\* entry up to the first await: the path decision, chunk_content, and the
\* first analysis call (or the merge of no chunks at all)
AnalyzeStart ==
    /\ pc = "start"
    /\ LET total_tokens == count_tokens(content)
       IN IF fits_single_request(total_tokens, max_tokens)
          THEN /\ pc' = "single_await"
               /\ analyze_calls' = analyze_calls + 1
               /\ analysis_log' =
                     <<AnalysisCall("analyze_single_article", content, 0, 1)>>
               /\ UNCHANGED <<chunks, chunk_calls, synth_calls, synth_prompt,
                              result>>
          ELSE LET cs == chunk_content(content, max_tokens)
               IN /\ chunks' = cs
                  /\ chunk_calls' = chunk_calls + 1
                  /\ IF cs = <<>>
                     THEN MergeEnter(<<>>)
                          /\ UNCHANGED <<analyze_calls, analysis_log>>
                     ELSE /\ pc' = "chunk_await"
                          /\ analyze_calls' = analyze_calls + 1
                          /\ analysis_log' =
                                <<AnalysisCall("analyze_article_chunk",
                                               cs[1], 0, Len(cs))>>
                          /\ UNCHANGED <<synth_calls, synth_prompt, result>>
    /\ UNCHANGED <<content, max_tokens, idx, summaries, topics_lists,
                   responses, synth_response, exc, cancelled_at, otherVars>>

\* analyze_single_article resumes with the response and returns
SingleCompletes ==
    \E resp \in AnalysisResponses :
        /\ pc = "single_await"
        /\ responses' = <<resp>>
        /\ result' = analyze_single_article(resp)
        /\ pc' = "done"
        /\ UNCHANGED <<content, max_tokens, chunks, idx, summaries,
                       topics_lists, synth_response, synth_prompt,
                       analyze_calls, synth_calls, exc, chunk_calls,
                       analysis_log, cancelled_at, otherVars>>

\* analyze_article_chunk resumes for chunks[idx]; the loop appends its
\* result and either issues the next analysis call or enters the merge
ChunkCompletes ==
    \E resp \in AnalysisResponses :
        /\ pc = "chunk_await"
        /\ LET r == analyze_article_chunk(resp, idx)
               sums == Append(summaries, r.summary)
           IN /\ summaries' = sums
              /\ topics_lists' = Append(topics_lists, r.topics)
              /\ responses' = Append(responses, resp)
              /\ idx' = idx + 1
              /\ IF loop_continues(idx, chunks)
                 THEN /\ pc' = "chunk_await"
                      /\ analyze_calls' = analyze_calls + 1
                      /\ analysis_log' =
                            Append(analysis_log,
                                   AnalysisCall("analyze_article_chunk",
                                                chunks[idx + 2], idx + 1,
                                                Len(chunks)))
                      /\ UNCHANGED <<synth_calls, synth_prompt, result>>
                 ELSE MergeEnter(sums)
                      /\ UNCHANGED <<analyze_calls, analysis_log>>
        /\ UNCHANGED <<content, max_tokens, chunks, synth_response, exc,
                       chunk_calls, cancelled_at, otherVars>>

\* merge_chunk_analyses resumes with a synthesis response
SynthReturns ==
    \E resp \in SynthResponses :
        /\ resp.kind = "content"
        /\ pc = "synth_await"
        /\ synth_response' = resp
        /\ result' = Analysis(Str(strip(final_summary(resp, summaries))),
                              merge_topics(topics_lists))
        /\ pc' = "done"
        /\ UNCHANGED <<content, max_tokens, chunks, idx, summaries,
                       topics_lists, responses, synth_prompt, analyze_calls,
                       synth_calls, exc, chunk_calls, analysis_log,
                       cancelled_at, otherVars>>

\* the synthesis call raises: the except clause joins the raw summaries
SynthRaises ==
    /\ pc = "synth_await"
    /\ synth_response' = RaiseResponse
    /\ IF JoinRaises(summaries)
       THEN /\ pc' = "raised"
            /\ exc' = "TypeError"
            /\ UNCHANGED result
       ELSE /\ pc' = "done"
            /\ result' = Analysis(Str(strip(final_summary(RaiseResponse, summaries))),
                                  merge_topics(topics_lists))
            /\ UNCHANGED exc
    /\ UNCHANGED <<content, max_tokens, chunks, idx, summaries, topics_lists,
                   responses, synth_prompt, analyze_calls, synth_calls,
                   chunk_calls, analysis_log, cancelled_at, otherVars>>

NoToolkit == [id |-> 0, browser |-> 0]

\* get_model_context_limit not called
LimitIdle ==
    /\ model_id = <<>>
    /\ limit_out = 0
    /\ warnings = 0

\* no NewsScraper at work
ScraperIdle ==
    /\ urls = <<>>
    /\ max_concurrent_requests = 0
    /\ semaphore = 0
    /\ task_pc = <<>>
    /\ task_result = <<>>
    /\ task_log = <<>>
    /\ completion_order = <<>>
    /\ rate_limit_delay = 0
    /\ scrape_result = <<>>

\* the class attributes of ToolkitManager as defined, and no caller
ToolkitIdle ==
    /\ cls_toolkit = NoToolkit
    /\ cls_browser = 0
    /\ cls_playwright = 0
    /\ lock_holder = 0
    /\ lock_acquisitions = 0
    /\ caller_pc = <<>>
    /\ caller_ret = <<>>
    /\ starts = 0
    /\ launches = 0
    /\ playwright_state = <<>>
    /\ browser_state = <<>>
    /\ caller_target = <<>>

\* analyze_article_content not at work on anything yet
GenaiIdle ==
    /\ chunks = <<>>
    /\ idx = 0
    /\ responses = <<>>
    /\ synth_response = NoResponse
    /\ synth_prompt = <<>>
    /\ analyze_calls = 0
    /\ synth_calls = 0
    /\ result = NoResult
    /\ exc = "none"
    /\ chunk_calls = 0
    /\ analysis_log = <<>>
    /\ cancelled_at = -1

\* no concurrent invocations
ConcIdle == frames = <<>>

\* no ChromaDBClient at work
ChromaIdle ==
    /\ chunk_input = <<>>
    /\ chunk_limit = 0
    /\ text_chunks = <<>>
    /\ collection = <<>>
    /\ store_log = <<>>

Idle ==
    /\ LimitIdle
    /\ ScraperIdle
    /\ ToolkitIdle
    /\ ChromaIdle
    /\ GenaiIdle
    /\ ConcIdle

\* no analysis function called at all
GenaiUnused ==
    /\ content = <<>>
    /\ max_tokens = 0
    /\ summaries = <<>>
    /\ topics_lists = <<>>
    /\ GenaiIdle
    /\ ConcIdle

Init ==
    /\ pc = "start"
    /\ content \in SeqsUpTo(DocAlphabet, MaxDocLen)
    /\ max_tokens \in Budgets
    /\ summaries = <<>>
    /\ topics_lists = <<>>
    /\ Idle

Next ==
    \/ AnalyzeStart
    \/ SingleCompletes
    \/ ChunkCompletes
    \/ SynthReturns
    \/ SynthRaises

Spec == Init /\ [][Next]_vars

----------------------------------------------------------------------------
(* Cancellation of an in-flight analyze_article_content call *)

\* a cancellation that "except Exception" would catch: at a chunk's await
\* it becomes that chunk's placeholder and the loop goes on; elsewhere the
\* handler's result is returned
CancelSwallowed ==
    /\ pc \in {"single_await", "chunk_await", "synth_await"}
    /\ cancelled_at' = analyze_calls + synth_calls
    /\ IF pc = "chunk_await"
       THEN LET r == analyze_article_chunk(RaiseResponse, idx)
                sums == Append(summaries, r.summary)
            IN /\ summaries' = sums
               /\ topics_lists' = Append(topics_lists, r.topics)
               /\ responses' = Append(responses, RaiseResponse)
               /\ idx' = idx + 1
               /\ IF loop_continues(idx, chunks)
                  THEN /\ pc' = "chunk_await"
                       /\ analyze_calls' = analyze_calls + 1
                       /\ UNCHANGED <<synth_calls, synth_prompt, result>>
                  ELSE MergeEnter(sums) /\ UNCHANGED analyze_calls
       ELSE /\ pc' = "done"
            /\ result' = analyze_single_article(RaiseResponse)
            /\ UNCHANGED <<summaries, topics_lists, responses, idx,
                           analyze_calls, synth_calls, synth_prompt>>
    /\ UNCHANGED <<content, max_tokens, chunks, synth_response, exc,
                   chunk_calls, analysis_log, otherVars>>

\* the task is cancelled while it waits for an external call: the await
\* raises CancelledError, which is not an Exception, so no except clause of
\* genai.py catches it and it leaves analyze_article_content
Cancel ==
    /\ pc \in {"single_await", "chunk_await", "synth_await"}
    /\ cancelled_at' = analyze_calls + synth_calls
    /\ pc' = "cancelled"
    /\ exc' = "CancelledError"
    /\ UNCHANGED <<content, max_tokens, chunks, idx, summaries, topics_lists,
                   responses, synth_response, synth_prompt, analyze_calls,
                   synth_calls, result, chunk_calls, analysis_log,
                   otherVars>>

NextCancel == Next \/ Cancel

SpecCancel == Init /\ [][NextCancel]_vars

----------------------------------------------------------------------------
(* chunk_content on its own: every text up to MaxLen, every budget *)

ChunkContentCall ==
    /\ pc = "chunk_start"
    /\ chunks' = chunk_content(content, max_tokens)
    /\ pc' = "chunked"
    /\ UNCHANGED <<content, max_tokens, idx, summaries, topics_lists,
                   responses, synth_response, synth_prompt, analyze_calls,
                   synth_calls, result, exc, chunk_calls, analysis_log,
                   cancelled_at, otherVars>>

ChunkBudgets == (Margin + 1)..(Margin + MaxChunkBudget)

InitChunk ==
    /\ pc = "chunk_start"
    /\ content \in SeqsUpTo(Alphabet, MaxLen)
    /\ max_tokens \in ChunkBudgets
    /\ summaries = <<>>
    /\ topics_lists = <<>>
    /\ Idle

SpecChunk == InitChunk /\ [][ChunkContentCall]_vars

----------------------------------------------------------------------------
(* merge_chunk_analyses on its own: every partial sequence up to MaxPartials *)

SummaryVals == {Str(<<"x">>), Str(<<" ", "y">>), NoneV}
TopicLists ==
    {<<>>, <<LabelAI>>, <<Labelai, <<"P">> >>, << <<"p">>, <<"A", "i">> >>}

MergeCall ==
    /\ pc = "merge_start"
    /\ MergeEnter(summaries)
    /\ UNCHANGED <<content, max_tokens, chunks, idx, summaries, topics_lists,
                   responses, synth_response, analyze_calls, exc, chunk_calls,
                   analysis_log, cancelled_at, otherVars>>

InitMerge ==
    /\ pc = "merge_start"
    /\ content = <<>>
    /\ max_tokens = Margin + 1
    /\ \E n \in 0..MaxPartials :
          /\ summaries \in [1..n -> SummaryVals]
          /\ topics_lists \in [1..n -> TopicLists]
    /\ Idle

NextMerge ==
    \/ MergeCall
    \/ SynthReturns
    \/ SynthRaises

SpecMerge == InitMerge /\ [][NextMerge]_vars

----------------------------------------------------------------------------
(***************************************************************************)
(* get_model_context_limit *)
(***************************************************************************)
\* the dict model_limits, one record per key
model_limits ==
    { [id |-> <<"g", "p", "t", "-", "5", "-", "n", "a", "n", "o">>,
       limit |-> 400000],
      [id |-> <<"g", "p", "t", "-", "3", ".", "5", "-", "t", "u", "r", "b", "o">>,
       limit |-> 16385],
      [id |-> <<"g", "p", "t", "-", "3", ".", "5", "-", "t", "u", "r", "b", "o", "-", "1", "6", "k">>,
       limit |-> 16385],
      [id |-> <<"g", "p", "t", "-", "3", ".", "5", "-", "t", "u", "r", "b", "o", "-", "1", "1", "0", "6">>,
       limit |-> 16385],
      [id |-> <<"g", "p", "t", "-", "3", ".", "5", "-", "t", "u", "r", "b", "o", "-", "0", "1", "2", "5">>,
       limit |-> 16385],
      [id |-> <<"g", "p", "t", "-", "4">>,
       limit |-> 8192],
      [id |-> <<"g", "p", "t", "-", "4", "-", "0", "3", "1", "4">>,
       limit |-> 8192],
      [id |-> <<"g", "p", "t", "-", "4", "-", "0", "6", "1", "3">>,
       limit |-> 8192],
      [id |-> <<"g", "p", "t", "-", "4", "-", "t", "u", "r", "b", "o">>,
       limit |-> 128000],
      [id |-> <<"g", "p", "t", "-", "4", "-", "t", "u", "r", "b", "o", "-", "p", "r", "e", "v", "i", "e", "w">>,
       limit |-> 128000],
      [id |-> <<"g", "p", "t", "-", "4", "-", "1", "1", "0", "6", "-", "p", "r", "e", "v", "i", "e", "w">>,
       limit |-> 128000],
      [id |-> <<"g", "p", "t", "-", "4", "-", "0", "1", "2", "5", "-", "p", "r", "e", "v", "i", "e", "w">>,
       limit |-> 128000],
      [id |-> <<"g", "p", "t", "-", "4", "-", "t", "u", "r", "b", "o", "-", "2", "0", "2", "4", "-", "0", "4", "-", "0", "9">>,
       limit |-> 128000],
      [id |-> <<"g", "p", "t", "-", "4", "o">>,
       limit |-> 128000],
      [id |-> <<"g", "p", "t", "-", "4", "o", "-", "2", "0", "2", "4", "-", "0", "5", "-", "1", "3">>,
       limit |-> 128000],
      [id |-> <<"g", "p", "t", "-", "4", "o", "-", "2", "0", "2", "4", "-", "0", "8", "-", "0", "6">>,
       limit |-> 128000],
      [id |-> <<"g", "p", "t", "-", "4", "o", "-", "m", "i", "n", "i">>,
       limit |-> 128000],
      [id |-> <<"g", "p", "t", "-", "4", "o", "-", "m", "i", "n", "i", "-", "2", "0", "2", "4", "-", "0", "7", "-", "1", "8">>,
       limit |-> 128000],
      [id |-> <<"t", "e", "x", "t", "-", "d", "a", "v", "i", "n", "c", "i", "-", "0", "0", "3">>,
       limit |-> 4097],
      [id |-> <<"t", "e", "x", "t", "-", "d", "a", "v", "i", "n", "c", "i", "-", "0", "0", "2">>,
       limit |-> 4097],
      [id |-> <<"c", "o", "d", "e", "-", "d", "a", "v", "i", "n", "c", "i", "-", "0", "0", "2">>,
       limit |-> 8001] }

\* a lookup that never finds the identifier
InTableNever(model) == FALSE

\* "model in model_limits"
InTable(model) == \E e \in model_limits : e.id = model

TableLimit(model) == (CHOOSE e \in model_limits : e.id = model).limit

Gpt4o == <<"g", "p", "t", "-", "4", "o">>
Gpt4Turbo == <<"g", "p", "t", "-", "4", "-", "t", "u", "r", "b", "o">>
Gpt4_1106 == <<"g", "p", "t", "-", "4", "-", "1", "1", "0", "6">>
Gpt4_0125 == <<"g", "p", "t", "-", "4", "-", "0", "1", "2", "5">>
Gpt4 == <<"g", "p", "t", "-", "4">>
Gpt35Turbo == <<"g", "p", "t", "-", "3", ".", "5", "-", "t", "u", "r", "b", "o">>
Davinci == <<"d", "a", "v", "i", "n", "c", "i">>
Code == <<"c", "o", "d", "e">>

LimitResult(limit, warned) == [limit |-> limit, warned |-> warned]

\* the fallback: logger.warning, then return 4096
FallbackLimit == LimitResult(4096, TRUE)

get_model_context_limit_no_davinci(model) ==
    IF InTable(model) THEN LimitResult(TableLimit(model), FALSE)
    ELSE LET model_lower == lower(model)
         IN IF Contains(model_lower, Gpt4o) THEN LimitResult(128000, FALSE)
            ELSE IF \/ Contains(model_lower, Gpt4Turbo)
                    \/ Contains(model_lower, Gpt4_1106)
                    \/ Contains(model_lower, Gpt4_0125)
                 THEN LimitResult(128000, FALSE)
            ELSE IF Contains(model_lower, Gpt4) THEN LimitResult(8192, FALSE)
            ELSE IF Contains(model_lower, Gpt35Turbo)
                 THEN LimitResult(16385, FALSE)
            ELSE FallbackLimit

get_model_context_limit(model) ==
    IF InTable(model) THEN LimitResult(TableLimit(model), FALSE)
    ELSE LET model_lower == lower(model)
         IN IF Contains(model_lower, Gpt4o) THEN LimitResult(128000, FALSE)
            ELSE IF \/ Contains(model_lower, Gpt4Turbo)
                    \/ Contains(model_lower, Gpt4_1106)
                    \/ Contains(model_lower, Gpt4_0125)
                 THEN LimitResult(128000, FALSE)
            ELSE IF Contains(model_lower, Gpt4) THEN LimitResult(8192, FALSE)
            ELSE IF Contains(model_lower, Gpt35Turbo)
                 THEN LimitResult(16385, FALSE)
            ELSE IF Contains(model_lower, Davinci)
                 THEN IF Contains(model_lower, Code)
                      THEN LimitResult(8001, FALSE)
                      ELSE LimitResult(4097, FALSE)
            ELSE FallbackLimit

\* pieces the model identifiers are put together from
Fragments ==
    {<<"g", "p", "t", "-", "4">>,
     <<"o">>,
     <<"-", "t", "u", "r", "b", "o">>,
     <<"-", "1", "1", "0", "6">>,
     <<"-", "0", "1", "2", "5">>,
     <<"g", "p", "t", "-", "3", ".", "5">>,
     <<"d", "a", "v", "i", "n", "c", "i">>,
     <<"c", "o", "d", "e", "-">>,
     <<"G", "P", "T", "-", "4">>,
     <<"x">>,
     <<"-", "p", "r", "e", "v", "i", "e", "w">>,
     <<"t", "e", "x", "t", "-">>}

\* every identifier of the table, alone and followed by one fragment, and
\* every concatenation of up to MaxFrags fragments (the empty string included)
ModelIds ==
    {e.id : e \in model_limits}
    \cup {e.id \o f : e \in model_limits, f \in Fragments}
    \cup {Flatten(fs) : fs \in SeqsUpTo(Fragments, MaxFrags)}

GetLimit ==
    /\ pc = "limit_start"
    /\ LET r == get_model_context_limit(model_id)
       IN /\ limit_out' = r.limit
          /\ warnings' = IF r.warned THEN warnings + 1 ELSE warnings
    /\ pc' = "limit_returned"
    /\ UNCHANGED <<model_id, genaiVars, scraperVars, toolkitVars, chromaVars>>

InitLimit ==
    /\ pc = "limit_start"
    /\ model_id \in ModelIds
    /\ limit_out = 0
    /\ warnings = 0
    /\ GenaiUnused
    /\ ScraperIdle
    /\ ToolkitIdle
    /\ ChromaIdle

SpecLimit == InitLimit /\ [][GetLimit]_vars

----------------------------------------------------------------------------
(***************************************************************************)
(* NewsScraper (src/src/news_scraper/core/scraper.py): scrape_urls and its *)
(* scrape_url tasks.  A task moves at the awaits of scrape_url: the        *)
(* semaphore, the page fetch in a thread, analyze_article_content and the  *)
(* rate-limit sleep.                                                       *)
(***************************************************************************)
Http == <<"h", "t", "t", "p", ":", "/", "/">>
Https == <<"h", "t", "t", "p", "s", ":", "/", "/">>

StartsWith(s, prefix) ==
    Len(s) >= Len(prefix) /\ SubSeq(s, 1, Len(prefix)) = prefix

is_valid_url(url) == StartsWith(url, Http) \/ StartsWith(url, Https)

normalize_url(url) == strip(url)

\* the URLs the lists are made of: two that pass is_valid_url, the first
\* with trailing white space, and one that does not
UrlPool ==
    { <<"h", "t", "t", "p", ":", "/", "/", "a", " ">>,
      <<"h", "t", "t", "p", "s", ":", "/", "/", "b">>,
      <<"f", "t", "p", ":", "/", "/", "a">> }

Pending == [t |-> "pending", url |-> <<>>]
ScrapeNone == [t |-> "none", url |-> <<>>]
ScrapeException == [t |-> "exception", url |-> <<>>]

\* the Article built at lines 169-180, told apart by its url
ArticleOf(url) == [t |-> "article", url |-> url]

isinstance_Article(res) == res.t = "article"

NoCalls == [fetches |-> 0, analyses |-> 0, fetch |-> "none", analysis |-> "none"]

\* what lines 155-162 can come to: the thread running
\* _get_html_with_selenium or the parse by newspaper raises, the page has
\* no title or no text, or all is well
FetchOutcomes == {"raises", "no_title_or_text", "ok"}

\* what lines 167-180 can come to: analyze_article_content or the
\* construction of Article raises, or all is well
AnalysisOutcomes == {"raises", "ok"}

Tasks == 1..Len(urls)

can_acquire_always(sem) == TRUE

\* asyncio.Semaphore.acquire goes on without waiting
can_acquire(sem) == sem > 0

on_exception_propagates == ScrapeException

\* except Exception: log and return None
on_exception == ScrapeNone

ReturnKeepsPermit(t, res, held) ==
    /\ task_pc' = [task_pc EXCEPT ![t] = "done"]
    /\ task_result' = [task_result EXCEPT ![t] = res]
    /\ completion_order' = Append(completion_order, t)
    /\ semaphore' = semaphore

\* the task returns res; leaving "async with" gives the permit back
Return(t, res, held) ==
    /\ task_pc' = [task_pc EXCEPT ![t] = "done"]
    /\ task_result' = [task_result EXCEPT ![t] = res]
    /\ completion_order' = Append(completion_order, t)
    /\ semaphore' = IF held THEN semaphore + 1 ELSE semaphore

\* scrape_url from the semaphore acquired to its first await
Enter(t) ==
    IF ~ is_valid_url(urls[t])
    THEN /\ Return(t, ScrapeNone, FALSE)
         /\ UNCHANGED task_log
    ELSE /\ semaphore' = semaphore - 1
         /\ task_pc' = [task_pc EXCEPT ![t] = "fetching"]
         /\ task_log' = [task_log EXCEPT ![t].fetches = @ + 1]
         /\ UNCHANGED <<task_result, completion_order>>

ScraperFixed == <<pc, urls, max_concurrent_requests, rate_limit_delay,
                  scrape_result, genaiVars, limitVars, toolkitVars,
                  chromaVars>>

\* the first step of a task, run in the order gather created the tasks
StartTask(t) ==
    /\ pc = "gathering"
    /\ task_pc[t] = "created"
    /\ \A u \in 1..(t - 1) : task_pc[u] # "created"
    /\ IF can_acquire(semaphore)
       THEN Enter(t)
       ELSE /\ task_pc' = [task_pc EXCEPT ![t] = "waiting"]
            /\ UNCHANGED <<semaphore, task_result, task_log, completion_order>>
    /\ UNCHANGED ScraperFixed

\* the task that has waited longest gets a permit (the waiters of an
\* asyncio.Semaphore are woken first in, first out)
Wake(t) ==
    /\ pc = "gathering"
    /\ task_pc[t] = "waiting"
    /\ \A u \in 1..(t - 1) : task_pc[u] # "waiting"
    /\ can_acquire(semaphore)
    /\ Enter(t)
    /\ UNCHANGED ScraperFixed

\* lines 155-167: the fetch ends, the page is parsed and checked, and the
\* analysis is called.  The thread's result reaches the event loop after
\* the first steps of all the tasks, which gather scheduled together.
FetchCompletes(t) ==
    /\ pc = "gathering"
    /\ task_pc[t] = "fetching"
    /\ \A u \in Tasks : task_pc[u] # "created"
    /\ \E o \in FetchOutcomes :
          /\ IF o = "ok"
             THEN /\ task_pc' = [task_pc EXCEPT ![t] = "analyzing"]
                  /\ task_log' = [task_log EXCEPT ![t].fetch = o,
                                                  ![t].analyses = @ + 1]
                  /\ UNCHANGED <<semaphore, task_result, completion_order>>
             ELSE /\ task_log' = [task_log EXCEPT ![t].fetch = o]
                  /\ Return(t, IF o = "no_title_or_text" THEN ScrapeNone
                                ELSE on_exception, TRUE)
    /\ UNCHANGED ScraperFixed

\* lines 167-189: the analysis ends, the Article is built
AnalysisCompletes(t) ==
    /\ pc = "gathering"
    /\ task_pc[t] = "analyzing"
    /\ \E o \in AnalysisOutcomes :
          /\ task_log' = [task_log EXCEPT ![t].analysis = o]
          /\ IF o # "ok"
             THEN Return(t, on_exception, TRUE)
             ELSE IF rate_limit_delay > 0
                  THEN /\ task_pc' = [task_pc EXCEPT ![t] = "sleeping"]
                       /\ UNCHANGED <<semaphore, task_result, completion_order>>
                  ELSE Return(t, ArticleOf(normalize_url(urls[t])), TRUE)
    /\ UNCHANGED ScraperFixed

\* lines 187-189: the rate-limit sleep ends
SleepCompletes(t) ==
    /\ pc = "gathering"
    /\ task_pc[t] = "sleeping"
    /\ Return(t, ArticleOf(normalize_url(urls[t])), TRUE)
    /\ UNCHANGED <<task_log, ScraperFixed>>

RECURSIVE Filter(_, _)
Filter(seq, i) ==
    IF i > Len(seq) THEN <<>>
    ELSE (IF isinstance_Article(seq[i]) THEN <<seq[i]>> ELSE <<>>)
         \o Filter(seq, i + 1)

gather_in_completion_order == [i \in 1..Len(urls) |-> task_result[completion_order[i]]]

\* asyncio.gather: the results in the order of the awaitables
gather == [i \in 1..Len(urls) |-> task_result[i]]

\* lines 206-211, once every task is done
ScrapeUrlsReturns ==
    /\ pc = "gathering"
    /\ \A t \in Tasks : task_pc[t] = "done"
    /\ scrape_result' = Filter(gather, 1)
    /\ pc' = "scrape_returned"
    /\ UNCHANGED <<urls, max_concurrent_requests, semaphore, task_pc,
                   task_result, task_log, completion_order, rate_limit_delay,
                   genaiVars, limitVars, toolkitVars, chromaVars>>

\* scrape_urls called on a new NewsScraper: the tasks are created (line 205)
InitScrape ==
    /\ pc = "gathering"
    /\ urls \in SeqsUpTo(UrlPool, MaxUrls)
    /\ max_concurrent_requests \in 0..MaxPermits
    /\ rate_limit_delay \in {0, 1}
    /\ semaphore = max_concurrent_requests
    /\ task_pc = [t \in Tasks |-> "created"]
    /\ task_result = [t \in Tasks |-> Pending]
    /\ task_log = [t \in Tasks |-> NoCalls]
    /\ completion_order = <<>>
    /\ scrape_result = <<>>
    /\ GenaiUnused
    /\ LimitIdle
    /\ ToolkitIdle
    /\ ChromaIdle

NextScrape ==
    \/ \E t \in Tasks : StartTask(t)
    \/ \E t \in Tasks : Wake(t)
    \/ \E t \in Tasks : FetchCompletes(t)
    \/ \E t \in Tasks : AnalysisCompletes(t)
    \/ \E t \in Tasks : SleepCompletes(t)
    \/ ScrapeUrlsReturns

SpecScrape == InitScrape /\ [][NextScrape]_vars

\* The event loop runs every task that is ready, wakes the first waiter of
\* a semaphore that has a free permit, and runs gather's callback once the
\* tasks are done; timers fire; and each page fetch and each analysis call
\* is taken to end.
FairScrape ==
    /\ WF_vars(\E t \in Tasks : StartTask(t))
    /\ WF_vars(\E t \in Tasks : Wake(t))
    /\ WF_vars(\E t \in Tasks : FetchCompletes(t))
    /\ WF_vars(\E t \in Tasks : AnalysisCompletes(t))
    /\ WF_vars(\E t \in Tasks : SleepCompletes(t))
    /\ WF_vars(ScrapeUrlsReturns)

\* scrape_urls called on a new NewsScraper, on a list of at most
\* MaxFairUrls URLs
InitScrapeFair ==
    /\ InitScrape
    /\ Len(urls) <= MaxFairUrls

SpecScrapeFair == InitScrapeFair /\ [][NextScrape]_vars /\ FairScrape

----------------------------------------------------------------------------
(***************************************************************************)
(* ToolkitManager.get_toolkit (src/src/news_scraper/core/toolkits.py),     *)
(* called by several coroutines of one event loop.  A call moves at its    *)
(* awaits: the lock, async_playwright().start(), chromium.launch() and     *)
(* new_context(), each of which here returns.                              *)
(***************************************************************************)
Callers == DOMAIN caller_pc

\* PlayWrightBrowserToolkit.from_browser(async_browser=browser): a new
\* object for each browser
from_browser(browser) == [id |-> browser, browser |-> browser]

needs_init_unchecked(toolkit) == TRUE

\* the second test of cls._toolkit, made under the lock
needs_init(toolkit) == toolkit = NoToolkit

ToolkitFixed == <<pc, genaiVars, limitVars, scraperVars, chromaVars>>

InstanceStates == <<playwright_state, browser_state, caller_target>>

\* return cls._toolkit
ReturnToolkit(c) ==
    /\ caller_pc' = [caller_pc EXCEPT ![c] = "done"]
    /\ caller_ret' = [caller_ret EXCEPT ![c] = cls_toolkit]

\* lines 24-28 and 32, with the lock just acquired
UnderLock(c) ==
    /\ lock_acquisitions' = lock_acquisitions + 1
    /\ IF needs_init(cls_toolkit)
       THEN /\ lock_holder' = c
            /\ caller_pc' = [caller_pc EXCEPT ![c] = "await_start"]
            /\ UNCHANGED caller_ret
       ELSE /\ lock_holder' = 0
            /\ ReturnToolkit(c)

\* lines 23-28: the call begins
GetToolkitCall(c) ==
    /\ caller_pc[c] = "idle"
    /\ IF cls_toolkit # NoToolkit
       THEN ReturnToolkit(c) /\ UNCHANGED <<lock_holder, lock_acquisitions>>
       ELSE IF lock_holder = 0
            THEN UnderLock(c)
            ELSE /\ caller_pc' = [caller_pc EXCEPT ![c] = "wait_lock"]
                 /\ UNCHANGED <<lock_holder, lock_acquisitions, caller_ret>>
    /\ UNCHANGED <<cls_toolkit, cls_browser, cls_playwright, starts, launches,
                   InstanceStates, ToolkitFixed>>

\* line 24: a call that waited gets the lock
LockAcquired(c) ==
    /\ caller_pc[c] = "wait_lock"
    /\ lock_holder = 0
    /\ UnderLock(c)
    /\ UNCHANGED <<cls_toolkit, cls_browser, cls_playwright, starts, launches,
                   InstanceStates, ToolkitFixed>>

\* line 28: async_playwright().start() returns
StartCompletes(c) ==
    /\ caller_pc[c] = "await_start"
    /\ starts' = starts + 1
    /\ cls_playwright' = starts + 1
    /\ playwright_state' = Append(playwright_state, "running")
    /\ caller_pc' = [caller_pc EXCEPT ![c] = "await_launch"]
    /\ UNCHANGED <<cls_toolkit, cls_browser, lock_holder, lock_acquisitions,
                   caller_ret, launches, browser_state, caller_target,
                   ToolkitFixed>>

\* line 29: chromium.launch() returns; it was called on the Playwright this
\* call started, the last one, which has not been stopped by now
LaunchCompletes(c) ==
    /\ caller_pc[c] = "await_launch"
    /\ playwright_state[starts] # "stopped"
    /\ launches' = launches + 1
    /\ cls_browser' = launches + 1
    /\ browser_state' = Append(browser_state, "running")
    /\ caller_pc' = [caller_pc EXCEPT ![c] = "await_context"]
    /\ UNCHANGED <<cls_toolkit, cls_playwright, lock_holder, lock_acquisitions,
                   caller_ret, starts, playwright_state, caller_target,
                   ToolkitFixed>>

\* lines 30-32: new_context() returns (it was called on the browser this
\* call launched, the last one, not closed by now), the toolkit is built
\* from the browser cls._browser now names and stored, the lock is released
\* and the toolkit returned
ContextCompletes(c) ==
    /\ caller_pc[c] = "await_context"
    /\ playwright_state[starts] # "stopped"
    /\ browser_state[launches] # "closed"
    /\ cls_browser # 0
    /\ cls_toolkit' = from_browser(cls_browser)
    /\ lock_holder' = 0
    /\ caller_pc' = [caller_pc EXCEPT ![c] = "done"]
    /\ caller_ret' = [caller_ret EXCEPT ![c] = cls_toolkit']
    /\ UNCHANGED <<cls_browser, cls_playwright, lock_acquisitions, starts,
                   launches, InstanceStates, ToolkitFixed>>

\* the class as defined and up to MaxCallers calls about to be made
InitToolkit ==
    /\ pc = "toolkit"
    /\ cls_toolkit = NoToolkit
    /\ cls_browser = 0
    /\ cls_playwright = 0
    /\ lock_holder = 0
    /\ lock_acquisitions = 0
    /\ \E n \in 1..MaxCallers :
          /\ caller_pc = [c \in 1..n |-> "idle"]
          /\ caller_ret = [c \in 1..n |-> NoToolkit]
          /\ caller_target = [c \in 1..n |-> 0]
    /\ starts = 0
    /\ launches = 0
    /\ playwright_state = <<>>
    /\ browser_state = <<>>
    /\ GenaiUnused
    /\ LimitIdle
    /\ ScraperIdle
    /\ ChromaIdle

NextToolkit ==
    \/ \E c \in Callers : GetToolkitCall(c)
    \/ \E c \in Callers : LockAcquired(c)
    \/ \E c \in Callers : StartCompletes(c)
    \/ \E c \in Callers : LaunchCompletes(c)
    \/ \E c \in Callers : ContextCompletes(c)

SpecToolkit == InitToolkit /\ [][NextToolkit]_vars

----------------------------------------------------------------------------
(***************************************************************************)
(* ToolkitManager.get_toolkit and close_browser called concurrently.       *)
(* close_browser takes no lock.  A call made on a Playwright that is being *)
(* stopped, or on a browser that is being closed, may still return or may  *)
(* raise; once the instance is stopped or closed it raises.                *)
(***************************************************************************)
\* get_toolkit leaves by an exception: "async with" releases the lock
RaiseFromInit(c) ==
    /\ caller_pc' = [caller_pc EXCEPT ![c] = "raised"]
    /\ lock_holder' = 0
    /\ UNCHANGED <<cls_toolkit, cls_browser, cls_playwright, lock_acquisitions,
                   caller_ret, starts, launches, InstanceStates, ToolkitFixed>>

\* line 29: chromium.launch() raises
LaunchRaises(c) ==
    /\ caller_pc[c] = "await_launch"
    /\ playwright_state[starts] # "running"
    /\ RaiseFromInit(c)

\* lines 30-31: new_context() raises, or from_browser is given None and
\* raises ValueError
ContextRaises(c) ==
    /\ caller_pc[c] = "await_context"
    /\ \/ playwright_state[starts] # "running"
       \/ browser_state[launches] # "running"
       \/ cls_browser = 0
    /\ RaiseFromInit(c)

\* lines 42-44
ResetFields(c) ==
    /\ cls_browser' = 0
    /\ cls_toolkit' = NoToolkit
    /\ cls_playwright' = 0
    /\ caller_pc' = [caller_pc EXCEPT ![c] = "closed"]

\* the state of an instance on which close() or stop() has been called
Ending(state, ending) == IF state = "running" THEN ending ELSE state

\* lines 39-40 when cls._playwright is set: stop() is called
CallStop(c) ==
    /\ playwright_state' =
          [playwright_state EXCEPT ![cls_playwright] = Ending(@, "stopping")]
    /\ caller_target' = [caller_target EXCEPT ![c] = cls_playwright]
    /\ caller_pc' = [caller_pc EXCEPT ![c] = "await_stop"]
    /\ UNCHANGED <<cls_toolkit, cls_browser, cls_playwright>>

\* lines 37-44: close_browser begins
CloseBrowserCall(c) ==
    /\ caller_pc[c] = "close_idle"
    /\ IF cls_browser # 0
       THEN /\ browser_state' =
                  [browser_state EXCEPT ![cls_browser] = Ending(@, "closing")]
            /\ caller_target' = [caller_target EXCEPT ![c] = cls_browser]
            /\ caller_pc' = [caller_pc EXCEPT ![c] = "await_close"]
            /\ UNCHANGED <<cls_toolkit, cls_browser, cls_playwright,
                           playwright_state>>
       ELSE IF cls_playwright # 0
            THEN CallStop(c) /\ UNCHANGED browser_state
            ELSE ResetFields(c) /\ UNCHANGED InstanceStates
    /\ UNCHANGED <<lock_holder, lock_acquisitions, caller_ret, starts, launches,
                   ToolkitFixed>>

\* lines 38-44: browser.close() returns
CloseCompletes(c) ==
    /\ caller_pc[c] = "await_close"
    /\ LET closed == [browser_state EXCEPT ![caller_target[c]] = "closed"]
       IN /\ browser_state' = closed
          /\ IF cls_playwright # 0
             THEN CallStop(c)
             ELSE ResetFields(c) /\ UNCHANGED <<playwright_state, caller_target>>
    /\ UNCHANGED <<lock_holder, lock_acquisitions, caller_ret, starts, launches,
                   ToolkitFixed>>

\* lines 40-44: playwright.stop() returns
StopCompletes(c) ==
    /\ caller_pc[c] = "await_stop"
    /\ playwright_state' =
          [playwright_state EXCEPT ![caller_target[c]] = "stopped"]
    /\ ResetFields(c)
    /\ UNCHANGED <<lock_holder, lock_acquisitions, caller_ret, starts, launches,
                   browser_state, caller_target, ToolkitFixed>>

\* the class as defined and up to MaxCallers calls about to be made, each
\* of get_toolkit or of close_browser
InitClose ==
    /\ pc = "toolkit"
    /\ cls_toolkit = NoToolkit
    /\ cls_browser = 0
    /\ cls_playwright = 0
    /\ lock_holder = 0
    /\ lock_acquisitions = 0
    /\ \E n \in 1..MaxCloseCalls :
          /\ caller_pc \in [1..n -> {"idle", "close_idle"}]
          /\ caller_ret = [c \in 1..n |-> NoToolkit]
          /\ caller_target = [c \in 1..n |-> 0]
    /\ starts = 0
    /\ launches = 0
    /\ playwright_state = <<>>
    /\ browser_state = <<>>
    /\ GenaiUnused
    /\ LimitIdle
    /\ ScraperIdle
    /\ ChromaIdle

NextClose ==
    \/ NextToolkit
    \/ \E c \in Callers : LaunchRaises(c)
    \/ \E c \in Callers : ContextRaises(c)
    \/ \E c \in Callers : CloseBrowserCall(c)
    \/ \E c \in Callers : CloseCompletes(c)
    \/ \E c \in Callers : StopCompletes(c)

SpecClose == InitClose /\ [][NextClose]_vars

----------------------------------------------------------------------------
(***************************************************************************)
(* Several invocations of analyze_article_content running concurrently on  *)
(* one event loop, as the scrape_url tasks start them (scraper.py:167).    *)
(* Each invocation has a frame holding its locals; a step runs one         *)
(* invocation from one await to the next.                                  *)
(***************************************************************************)
NewFrame(text) ==
    [pc |-> "start", content |-> text, chunks |-> <<>>, idx |-> 0,
     summaries |-> <<>>, topics_lists |-> <<>>, responses |-> <<>>,
     synth_response |-> NoResponse, result |-> NoResult, exc |-> "none"]

\* the documents of the concurrent invocations: one within the budget of
\* one token and one of two chunks
ConcDocs ==
    { <<"a">>,
      <<"a", "\n", "\n", "a">> }

\* an analysis call raises, gives a summary and a label, or gives a null
\* summary
ConcResponses ==
    { Response("raise", Missing, Missing),
      Response("json", Str(<<"x">>), List(<<LabelAI>>)),
      Response("json", NoneV, List(<<Labelp>>)) }

ConcSynthResponses ==
    { Response("raise", Missing, Missing),
      Response("content", Str(<<"f", " ">>), Missing) }

Invocations == DOMAIN frames

\* summaries and topics_lists kept in one place for all the invocations
accumulator_shared(d) == 1

\* the frame holding the lists summaries and topics_lists invocation d
\* appends to and merges: they are locals (lines 316-317), so its own
accumulator(d) == d

ConcFixed == <<pc, soloVars, limitVars, scraperVars, toolkitVars, chromaVars>>

\* lines 302-325: entry up to the first await
ConcStart(d) ==
    /\ frames[d].pc = "start"
    /\ IF fits_single_request(count_tokens(frames[d].content), max_tokens)
       THEN frames' = [frames EXCEPT ![d].pc = "single_await"]
       ELSE LET cs == chunk_content(frames[d].content, max_tokens)
                a == accumulator(d)
            IN frames' =
                 [frames EXCEPT
                    ![a].summaries = <<>>,
                    ![a].topics_lists = <<>>,
                    ![d].chunks = cs,
                    ![d].pc = IF cs = <<>> THEN "done" ELSE "chunk_await",
                    ![d].result = IF cs = <<>> THEN EmptyMergeResult ELSE @]
    /\ UNCHANGED ConcFixed

\* line 310: analyze_single_article resumes and returns
ConcSingleCompletes(d) ==
    /\ frames[d].pc = "single_await"
    /\ \E resp \in ConcResponses :
          frames' = [frames EXCEPT ![d].responses = <<resp>>,
                                   ![d].result = analyze_single_article(resp),
                                   ![d].pc = "done"]
    /\ UNCHANGED ConcFixed

\* lines 325-331: analyze_article_chunk resumes; the loop appends and goes
\* on to the next chunk or to the synthesis call
ConcChunkCompletes(d) ==
    /\ frames[d].pc = "chunk_await"
    /\ \E resp \in ConcResponses :
          LET r == analyze_article_chunk(resp, frames[d].idx)
              a == accumulator(d)
          IN frames' =
               [frames EXCEPT
                  ![a].summaries = Append(@, r.summary),
                  ![a].topics_lists = Append(@, r.topics),
                  ![d].responses = Append(@, resp),
                  ![d].pc = IF loop_continues(frames[d].idx, frames[d].chunks)
                            THEN "chunk_await" ELSE "synth_await",
                  ![d].idx = @ + 1]
    /\ UNCHANGED ConcFixed

\* lines 331-334: the synthesis call returns or raises and
\* merge_chunk_analyses ends
ConcSynthCompletes(d) ==
    /\ frames[d].pc = "synth_await"
    /\ \E resp \in ConcSynthResponses :
          LET a == accumulator(d)
              sums == frames[a].summaries
              tls == frames[a].topics_lists
          IN IF resp.kind = "raise" /\ JoinRaises(sums)
             THEN frames' = [frames EXCEPT ![d].synth_response = resp,
                                           ![d].pc = "raised",
                                           ![d].exc = "TypeError"]
             ELSE frames' =
                    [frames EXCEPT
                       ![d].synth_response = resp,
                       ![d].pc = "done",
                       ![d].result =
                           Analysis(Str(strip(final_summary(resp, sums))),
                                    merge_topics(tls))]
    /\ UNCHANGED ConcFixed

InitConc ==
    /\ pc = "concurrent"
    /\ \E n \in 1..MaxInvocations :
          frames \in [1..n -> {NewFrame(text) : text \in ConcDocs}]
    /\ content = <<>>
    /\ max_tokens = Margin + 1
    /\ summaries = <<>>
    /\ topics_lists = <<>>
    /\ GenaiIdle
    /\ LimitIdle
    /\ ScraperIdle
    /\ ToolkitIdle
    /\ ChromaIdle

NextConc ==
    \/ \E d \in Invocations : ConcStart(d)
    \/ \E d \in Invocations : ConcSingleCompletes(d)
    \/ \E d \in Invocations : ConcChunkCompletes(d)
    \/ \E d \in Invocations : ConcSynthCompletes(d)

SpecConc == InitConc /\ [][NextConc]_vars

----------------------------------------------------------------------------
(***************************************************************************)
(* ChromaDBClient (src/src/news_scraper/db/chroma_client.py).              *)
(*                                                                         *)
(* _count_tokens: tiktoken's cl100k_base encoding is modelled by one token *)
(* per character, except that a space directly before a character that is  *)
(* not white space belongs to that character's token.  The character "X"   *)
(* stands for a run of letters of BlockTokens tokens.                      *)
(***************************************************************************)
MAX_EMBEDDING_TOKENS == 8000
EmbeddingLimit == 8192     \* what the embedding model accepts
ChunkReserve == 10

TokenWeight(c) == IF c = "X" THEN BlockTokens ELSE 1

RECURSIVE TokensFrom(_, _)
TokensFrom(s, i) ==
    IF i > Len(s) THEN 0
    ELSE (IF s[i] = " " /\ i < Len(s) /\ ~IsSpace(s[i + 1])
          THEN 0 ELSE TokenWeight(s[i]))
         + TokensFrom(s, i + 1)

_count_tokens(s) == TokensFrom(s, 1)

\* str.replace('\n', ' ')
replace_newlines(s) == [i \in 1..Len(s) |-> IF s[i] = "\n" THEN " " ELSE s[i]]

\* str.split() with no argument: the runs of characters that are not
\* white space
RECURSIVE WordsFrom(_, _, _)
WordsFrom(s, i, word) ==
    IF i > Len(s) THEN (IF word = <<>> THEN <<>> ELSE <<word>>)
    ELSE IF IsSpace(s[i])
         THEN (IF word = <<>> THEN <<>> ELSE <<word>>)
              \o WordsFrom(s, i + 1, <<>>)
         ELSE WordsFrom(s, i + 1, Append(word, s[i]))

split_whitespace(s) == WordsFrom(s, 1, <<>>)

\* s[:n]
slice_to(s, n) ==
    IF n >= 0
    THEN SubSeq(s, 1, IF n < Len(s) THEN n ELSE Len(s))
    ELSE SubSeq(s, 1, Len(s) + n)

Space == <<" ">>

\* lines 138-147: the "for word in words" loop;
\* st = [chunks, word_chunk, word_tokens]
RECURSIVE WordLoop(_, _, _)
WordLoop(words, limit, st) ==
    IF words = <<>> THEN st
    ELSE LET word == Head(words)
             word_token_count == _count_tokens(word \o Space)
         IN IF st.word_tokens + word_token_count > limit
            THEN WordLoop(Tail(words), limit,
                     [chunks |-> IF st.word_chunk # <<>>
                                 THEN Append(st.chunks, join(Space, st.word_chunk))
                                 ELSE st.chunks,
                      word_chunk |-> <<word>>,
                      word_tokens |-> word_token_count])
            ELSE WordLoop(Tail(words), limit,
                     [chunks |-> st.chunks,
                      word_chunk |-> Append(st.word_chunk, word),
                      word_tokens |-> st.word_tokens + word_token_count])

\* lines 126-152: a sentence that alone exceeds max_tokens;
\* st = [chunks, current_chunk, current_tokens]
LongSentence(sentence, limit, st) ==
    LET saved == IF st.current_chunk # <<>>
                 THEN Append(st.chunks, join(Space, st.current_chunk))
                 ELSE st.chunks
        done == WordLoop(split_whitespace(sentence), limit,
                         [chunks |-> saved, word_chunk |-> <<>>,
                          word_tokens |-> 0])
    IN [chunks |-> IF done.word_chunk # <<>>
                   THEN Append(done.chunks, join(Space, done.word_chunk))
                   ELSE done.chunks,
        current_chunk |-> <<>>,
        current_tokens |-> 0]

\* lines 114-162: the "for sentence in sentences" loop
RECURSIVE ChunkTextLoop(_, _, _)
ChunkTextLoop(sentences, limit, st) ==
    IF sentences = <<>> THEN st
    ELSE LET stripped == strip(Head(sentences))
             sentence == IF stripped[Len(stripped)] = "."
                         THEN stripped ELSE Append(stripped, ".")
             sentence_tokens == _count_tokens(sentence)
         IN IF stripped = <<>>
            THEN ChunkTextLoop(Tail(sentences), limit, st)
            ELSE IF sentence_tokens > limit
            THEN ChunkTextLoop(Tail(sentences), limit,
                               LongSentence(sentence, limit, st))
            ELSE IF st.current_tokens + sentence_tokens > limit
            THEN ChunkTextLoop(Tail(sentences), limit,
                     [chunks |-> IF st.current_chunk # <<>>
                                 THEN Append(st.chunks,
                                             join(Space, st.current_chunk))
                                 ELSE st.chunks,
                      current_chunk |-> <<sentence>>,
                      current_tokens |-> sentence_tokens])
            ELSE ChunkTextLoop(Tail(sentences), limit,
                     [chunks |-> st.chunks,
                      current_chunk |-> Append(st.current_chunk, sentence),
                      current_tokens |-> st.current_tokens + sentence_tokens])

\* ChromaDBClient._chunk_text
_chunk_text(s, limit) ==
    LET sentences == split(replace_newlines(s), SentSep)
        st == ChunkTextLoop(sentences, limit,
                            [chunks |-> <<>>, current_chunk |-> <<>>,
                             current_tokens |-> 0])
        all == IF st.current_chunk # <<>>
               THEN Append(st.chunks, join(Space, st.current_chunk))
               ELSE st.chunks
    IN IF all # <<>> THEN all ELSE <<slice_to(s, limit)>>

ChromaAlphabet == {"a", ".", " ", "\n"}
ChromaTexts == SeqsUpTo(ChromaAlphabet, MaxTextLen)

\* the call _chunk_text(chunk_input, chunk_limit) returns
ChunkText ==
    /\ pc = "chunk_text"
    /\ text_chunks' = _chunk_text(chunk_input, chunk_limit)
    /\ pc' = "chunk_text_returned"
    /\ UNCHANGED <<chunk_input, chunk_limit, collection, store_log, genaiVars,
                   limitVars, scraperVars, toolkitVars>>

InitChunkText ==
    /\ pc = "chunk_text"
    /\ chunk_input \in ChromaTexts
    /\ chunk_limit \in 1..MaxChunkTokens
    /\ text_chunks = <<>>
    /\ collection = <<>>
    /\ store_log = <<>>
    /\ GenaiUnused
    /\ LimitIdle
    /\ ScraperIdle
    /\ ToolkitIdle

SpecChunkText == InitChunkText /\ [][ChunkText]_vars

----------------------------------------------------------------------------
(* ChromaDBClient.store_article, get_article, article_exists, count *)

ArticleIds == {<<"article", n>> : n \in 1..MaxArticles}
ArticleTitle == <<"t">>

\* a short article; three sentences, three words and one word, each too
\* long for a single record
ArticleContents ==
    {<<"a", ".">>,
     <<"X", ".", " ", "X", ".", " ", "X", ".">>,
     <<"X", " ", "X", " ", "X">>,
     <<"X", "X", "X">>}

Articles ==
    [id : ArticleIds, title : {ArticleTitle}, content : ArticleContents]

\* line 220: f"{article.title}\n\n{article.content}"
full_document(article) == article.title \o ParaSep \o article.content

\* line 251: f"{article.id}_chunk_{i}"
chunk_id(article, i) == article.id \o <<"_chunk_", i>>

\* lines 225-258: the records store_article hands to self._collection.add
records(article) ==
    IF _count_tokens(full_document(article)) <= MAX_EMBEDDING_TOKENS
    THEN <<[id |-> article.id,
            document |-> full_document(article),
            chunk_index |-> 0,
            total_chunks |-> 1]>>
    ELSE LET content_chunks ==
                 _chunk_text(article.content,
                             MAX_EMBEDDING_TOKENS
                                 - _count_tokens(article.title) - ChunkReserve)
         IN [i \in 1..Len(content_chunks) |->
                [id |-> chunk_id(article, i - 1),
                 document |-> article.title \o ParaSep \o content_chunks[i],
                 chunk_index |-> i - 1,
                 total_chunks |-> Len(content_chunks)]]

AddOutcomes == {"ok", "raises"}

\* self._collection.add raises when the embedding model refuses a document,
\* and whenever the service or the store fails
add_raises(recs, outcome) ==
    \/ outcome = "raises"
    \/ \E i \in 1..Len(recs) : _count_tokens(recs[i].document) > EmbeddingLimit

\* self._collection.get(ids=[article_id])
get(article_id) == SelectSeq(collection, LAMBDA rec : rec.id = article_id)

NoRecord == [id |-> <<>>, document |-> <<>>]

\* ChromaDBClient.get_article, NoRecord for None
get_article(article_id) ==
    IF get(article_id) # <<>>
    THEN [id |-> get(article_id)[1].id, document |-> get(article_id)[1].document]
    ELSE NoRecord

\* ChromaDBClient.article_exists
article_exists(article_id) == Len(get(article_id)) > 0

\* ChromaDBClient.count
count == Len(collection)

\* store_article(article): lines 217-270
StoreArticle(article, outcome) ==
    /\ pc = "store"
    /\ Len(store_log) < MaxArticles
    /\ \A k \in 1..Len(store_log) : store_log[k].article.id # article.id
    /\ LET raised == add_raises(records(article), outcome)
       IN /\ collection' = IF raised THEN collection
                           ELSE collection \o records(article)
          /\ store_log' = Append(store_log,
                                 [article |-> article, returned |-> ~raised])
    /\ UNCHANGED <<pc, chunk_input, chunk_limit, text_chunks, genaiVars, limitVars,
                   scraperVars, toolkitVars>>

\* an empty collection and no article stored yet
InitStore ==
    /\ pc = "store"
    /\ chunk_input = <<>>
    /\ chunk_limit = 0
    /\ text_chunks = <<>>
    /\ collection = <<>>
    /\ store_log = <<>>
    /\ GenaiUnused
    /\ LimitIdle
    /\ ScraperIdle
    /\ ToolkitIdle

NextStore == \E article \in Articles, outcome \in AddOutcomes :
                 StoreArticle(article, outcome)

SpecStore == InitStore /\ [][NextStore]_vars

----------------------------------------------------------------------------
(* Properties of chunk_content (checked under SpecChunk) *)

\* a chunk that is one single sentence: no paragraph and no sentence boundary
IsSingleSentence(chunk) ==
    ~Contains(chunk, ParaSep) /\ ~Contains(chunk, SentSep)

\* the non-empty sentence pieces of a text, in order
RECURSIVE NonEmpty(_)
NonEmpty(ss) ==
    IF ss = <<>> THEN <<>>
    ELSE (IF Head(ss) # <<>> THEN <<Head(ss)>> ELSE <<>>) \o NonEmpty(Tail(ss))

Pieces(text) ==
    LET paragraphs == split(text, ParaSep)
    IN NonEmpty(Flatten([i \in 1..Len(paragraphs) |->
                            split(paragraphs[i], SentSep)]))

\* C1: every chunk returned by chunk_content costs at most max_tokens - 1000
\* tokens, unless it is one single sentence (no '\n\n', no '. ') that alone
\* exceeds the budget.
C1_ChunksWithinBudget ==
    pc = "chunked" =>
        \A i \in 1..Len(chunks) :
            \/ count_tokens(chunks[i]) <= max_tokens - 1000
            \/ IsSingleSentence(chunks[i])

\* C2: the chunks, taken in order, hold every paragraph/sentence piece of the
\* text exactly once and in the original order (nothing dropped, nothing
\* duplicated, up to the separators consumed as boundaries).
C2_PiecesPreserved ==
    pc = "chunked" =>
        Flatten([i \in 1..Len(chunks) |-> Pieces(chunks[i])]) = Pieces(content)

\* C3: for every non-empty text, also one made only of separators,
\* chunk_content returns a non-empty sequence of chunks.
C3_NeverEmpty ==
    (pc = "chunked" /\ content # <<>>) => chunks # <<>>

\* C3 (amended): for every text that holds at least one non-empty
\* paragraph/sentence piece, i.e. that is not made only of '\n\n' and '. '
\* separators, chunk_content returns a non-empty sequence of chunks.
C3_NonEmptyForContent ==
    (pc = "chunked" /\ Pieces(content) # <<>>) => chunks # <<>>

\* chunk_content has split an over-budget text that holds an empty piece
\* next to a non-empty one
C3_Witness ==
    /\ pc = "chunked"
    /\ Pieces(content) # <<>>
    /\ Contains(content, ParaSep)
    /\ Len(Pieces(content)) < Len(split(content, ParaSep))
    /\ count_tokens(content) > max_tokens - Margin
    /\ chunks # <<>>

\* the state of the paragraph loop after the first k paragraphs of the text
LoopState(k) ==
    ParagraphLoop(SubSeq(split(content, ParaSep), 1, k), max_tokens - 1000,
                  [chunks |-> <<>>, current_chunk |-> <<>>])

\* the running buffer joined with a paragraph by '\n\n'
Joined(buffer, paragraph) ==
    IF buffer = <<>> THEN paragraph ELSE buffer \o ParaSep \o paragraph

\* C24: chunk_content packs paragraphs greedily.  At every paragraph, if the
\* running buffer joined with the paragraph by '\n\n' stays within
\* max_tokens - 1000 the paragraph is appended to the buffer and no chunk is
\* closed; a chunk is closed at a paragraph only if the joined text exceeds
\* that budget.  So a text within the budget that begins with a paragraph
\* comes back as one chunk, and no chunk could have taken the first
\* paragraph of the chunk after it.
C24_GreedyPacking ==
    pc = "chunked" =>
        LET paragraphs == split(content, ParaSep)
            budget == max_tokens - 1000
        IN /\ \A k \in 1..Len(paragraphs) :
                 LET before == LoopState(k - 1)
                     after == LoopState(k)
                     joined == Joined(before.current_chunk, paragraphs[k])
                 IN /\ count_tokens(joined) <= budget =>
                          /\ after.chunks = before.chunks
                          /\ after.current_chunk = joined
                    /\ after.chunks # before.chunks =>
                          count_tokens(joined) > budget
           /\ (Head(paragraphs) # <<>> /\ count_tokens(content) <= budget) =>
                 chunks = <<content>>
           /\ \A i \in 1..(Len(chunks) - 1) :
                 count_tokens(Joined(chunks[i],
                                     Head(split(chunks[i + 1], ParaSep))))
                    > budget

\* two paragraphs that fit together share a chunk and the third, which
\* would not fit with them, begins the next chunk
C24_Witness ==
    /\ pc = "chunked"
    /\ Len(split(content, ParaSep)) = 3
    /\ Len(chunks) = 2
    /\ Contains(chunks[1], ParaSep)
    /\ count_tokens(chunks[1]) <= max_tokens - 1000
    /\ count_tokens(chunks[2]) <= max_tokens - 1000

----------------------------------------------------------------------------
(* Properties of analyze_article_content (checked under Spec) *)

\* C4: for non-empty content, whatever the analysis and synthesis calls do
\* (raise, malformed response, empty or null payload fields), no exception
\* escapes analyze_article_content.
C4_NoExceptionEscapes ==
    content # <<>> => (pc # "raised" /\ exc = "none")

\* C5: in the chunked path, when the analysis of chunk k of n fails, chunk k
\* contributes exactly "Could not generate summary for part k." and no
\* labels, every other chunk contributes what its own response determines,
\* the remaining chunks are still analysed and a final result is produced.
C5_ChunkFailureIsolated ==
    \A k \in 1..Len(summaries) :
        (chunks # <<>> /\ ChunkAnalysisFails(responses[k])) =>
            /\ summaries[k] =
                  Str(<<"Could not generate summary for part ", ToString(k), ".">>)
            /\ topics_lists[k] = <<>>
            /\ \A j \in (1..Len(summaries)) \ {k} :
                  ~ChunkAnalysisFails(responses[j]) =>
                      /\ summaries[j] \in {responses[j].summary,
                                           Str(<<"No summary available.">>)}
                      /\ topics_lists[j] =
                            analyze_article_chunk(responses[j], j - 1).topics
            /\ pc \in {"chunk_await", "synth_await", "done"}
            /\ pc # "chunk_await" => Len(summaries) = Len(chunks)

----------------------------------------------------------------------------
(* Properties of merge_chunk_analyses (checked under SpecMerge) *)

AllTopics == Flatten(topics_lists)

\* position of the first label of AllTopics equal to label up to case
FirstPos(label) ==
    CHOOSE k \in 1..Len(AllTopics) :
        /\ lower(AllTopics[k]) = lower(label)
        /\ \A m \in 1..(k - 1) : lower(AllTopics[m]) # lower(label)

\* C6: the merged labels hold no two entries equal under lowercase
\* comparison, hold up to case exactly the labels of the partials, keep the
\* spelling of each label's first occurrence, and are ordered by first
\* occurrence across the whole partial sequence.
C6_LabelsDeduplicated ==
    pc = "done" =>
        LET out == result.topics
        IN /\ \A i, j \in 1..Len(out) :
                  i # j => lower(out[i]) # lower(out[j])
           /\ {lower(out[i]) : i \in 1..Len(out)}
                 = {lower(AllTopics[k]) : k \in 1..Len(AllTopics)}
           /\ \A i \in 1..Len(out) : out[i] = AllTopics[FirstPos(out[i])]
           /\ \A i, j \in 1..Len(out) :
                  i < j => FirstPos(out[i]) < FirstPos(out[j])

\* a merge of two or more partials has dropped a case-variant repeat and
\* kept at least two labels
C6_Witness ==
    /\ pc = "done"
    /\ Len(topics_lists) >= 2
    /\ Len(result.topics) >= 2
    /\ Len(result.topics) < Len(AllTopics)

\* C7: merge_chunk_analyses called with exactly one partial returns that
\* partial's summary and labels unchanged and makes no synthesis call.
C7_SinglePartialIdentity ==
    (Len(summaries) = 1 /\ pc # "merge_start") =>
        /\ synth_calls = 0
        /\ pc = "done"
        /\ result = Analysis(summaries[1], topics_lists[1])

\* C8: merge_chunk_analyses called with no partials returns
\* ("Could not generate summary.", []) and makes no synthesis call.
C8_EmptyMergeFixed ==
    (summaries = <<>> /\ pc # "merge_start") =>
        /\ pc = "done"
        /\ result = Analysis(Str(<<"Could not generate summary.">>), <<>>)
        /\ synth_calls = 0
        /\ synth_response = NoResponse

\* merge_chunk_analyses has returned for an empty partial sequence
C8_Witness ==
    pc = "done" /\ summaries = <<>> /\ topics_lists = <<>>

\* C9: when the synthesis call raises during a merge of two or more
\* partials, the final summary is the partial summaries joined by a single
\* space in chunk order, and no exception escapes.
C9_SynthFailureJoins ==
    (synth_response.kind = "raise" /\ Len(summaries) >= 2) =>
        /\ pc = "done"
        /\ exc = "none"
        /\ result.summary =
              Str(join(<<" ">>, [i \in 1..Len(summaries) |-> summaries[i].v]))

\* C10: for the same partials the returned label list is the same whether
\* the synthesis call succeeds, returns an empty payload or raises.
C10_LabelsIndependentOfSynthesis ==
    (synth_response # NoResponse /\ summaries # <<>>) =>
        /\ pc = "done"
        /\ result.topics = merge_topics(topics_lists)

----------------------------------------------------------------------------
(* More properties of analyze_article_content (checked under Spec) *)

\* C11: whenever token_count(content) <= context limit - 1000 the call takes
\* the single-pass path: exactly one analysis call, on the whole text, no
\* call of chunk_content and no synthesis call; otherwise it takes the
\* chunked path.
C11_PathBySize ==
    pc # "start" =>
        IF count_tokens(content) <= max_tokens - 1000
        THEN /\ pc \in {"single_await", "done"}
             /\ analyze_calls = 1
             /\ Len(analysis_log) = 1
             /\ analysis_log[1].fn = "analyze_single_article"
             /\ analysis_log[1].text = content
             /\ chunk_calls = 0
             /\ synth_calls = 0
        ELSE /\ pc # "single_await"
             /\ chunk_calls = 1
             /\ \A i \in 1..Len(analysis_log) :
                    analysis_log[i].fn = "analyze_article_chunk"

\* a non-empty document exactly at the budget has been analysed in one pass
C11_Witness ==
    /\ pc = "done"
    /\ content # <<>>
    /\ count_tokens(content) = max_tokens - 1000
    /\ analyze_calls = 1

\* the summary and labels chunk i (1-based) contributed, from its response
Contribution(i) == analyze_article_chunk(responses[i], i - 1)

\* C12: in the chunked path with n >= 2 chunks the synthesis capability is
\* called exactly once, its input holds the n partial summaries labelled
\* "Section 1" .. "Section n" with Section i carrying the summary produced
\* for chunk index i-1, and the final labels are the deduplicated union of
\* all chunks' labels.
C12_SynthesisOnceInOrder ==
    Len(chunks) >= 2 =>
        /\ synth_calls <= 1
        /\ pc \in {"synth_await", "done", "raised"} =>
              LET sections == split(synth_prompt, ParaSep)
              IN /\ synth_calls = 1
                 /\ Len(sections) = Len(chunks)
                 /\ \A i \in 1..Len(chunks) :
                       /\ analysis_log[i].text = chunks[i]
                       /\ analysis_log[i].index = i - 1
                       /\ sections[i] =
                             <<"Section ", ToString(i), ": ">>
                                \o Format(Contribution(i).summary)
        /\ pc = "done" =>
              LET out == result.topics
              IN /\ \A i, j \in 1..Len(out) :
                        i # j => lower(out[i]) # lower(out[j])
                 /\ {lower(out[i]) : i \in 1..Len(out)} =
                       UNION { {lower(Contribution(i).topics[k]) :
                                   k \in 1..Len(Contribution(i).topics)} :
                               i \in 1..Len(chunks) }

\* a three-chunk document has been merged into a result with several labels
C12_Witness ==
    /\ pc = "done"
    /\ Len(chunks) = 3
    /\ synth_calls = 1
    /\ Len(result.topics) >= 2

\* C13: the synthesis call is issued only after every chunk's analysis has
\* completed: never while a chunk analysis is outstanding or not yet started.
C13_SynthesisAfterAllChunks ==
    synth_calls >= 1 =>
        /\ pc # "chunk_await"
        /\ analyze_calls = Len(chunks)
        /\ Len(responses) = Len(chunks)
        /\ Len(summaries) = Len(chunks)

\* the synthesis call of a document of several chunks is in flight
C13_Witness ==
    /\ pc = "synth_await"
    /\ synth_calls = 1
    /\ Len(chunks) >= 2

\* C14: analyze_article_content with empty content signals a precondition
\* violation at once: it issues no analysis call and returns no result.
C14_EmptyTextRejected ==
    (content = <<>> /\ pc # "start") =>
        /\ analyze_calls = 0
        /\ pc = "raised"

\* the external analysis call itself failed: it raised or gave no content
CallFailed(resp) == resp.kind \in {"raise", "content_none"}

\* the text names chunk index i, counted from 0 or from 1
NamesIndex(text, i) ==
    \E k \in 1..Len(text) : text[k] \in {ToString(i), ToString(i + 1)}

\* the chunked path's part of C22
C22_ChunkPart ==
    \A i \in 1..Len(summaries) :
        CallFailed(responses[i]) =>
            /\ summaries[i].t = "str"
            /\ NamesIndex(summaries[i].v, i - 1)
            /\ topics_lists[i] = <<>>

\* C22: when the external analysis call fails for a chunk, that chunk's
\* result is a placeholder summary naming the chunk's index, with no labels;
\* the same holds in the single-pass path, whose text is chunk 0 of 1.
C22_FailurePlaceholderNamesChunk ==
    /\ C22_ChunkPart
    /\ (/\ pc = "done"
        /\ analysis_log # <<>>
        /\ analysis_log[1].fn = "analyze_single_article"
        /\ CallFailed(responses[1])) =>
            /\ result.summary.t = "str"
            /\ NamesIndex(result.summary.v, 0)
            /\ result.topics = <<>>

\* C23: in the chunked path over n chunks analyze_article_chunk is called
\* once per chunk, for the chunks in order with indices 0, 1, .., n-1, and
\* every call is given n, the number of chunks chunk_content returned, as
\* the total; all n calls have been made when the loop is over.
C23_OneCallPerChunkInOrder ==
    chunk_calls = 1 =>
        LET n == Len(chunk_content(content, max_tokens))
        IN /\ Len(chunks) = n
           /\ Len(analysis_log) <= n
           /\ analyze_calls = Len(analysis_log)
           /\ \A i \in 1..Len(analysis_log) :
                 /\ analysis_log[i].fn = "analyze_article_chunk"
                 /\ analysis_log[i].index = i - 1
                 /\ analysis_log[i].total = n
                 /\ analysis_log[i].text = chunks[i]
           /\ pc \in {"synth_await", "done", "raised"} => Len(analysis_log) = n

\* the three chunks of a document have all been analysed and merged
C23_Witness ==
    /\ pc = "done"
    /\ chunk_calls = 1
    /\ Len(chunks) = 3
    /\ Len(analysis_log) = 3
    /\ analysis_log[3].index = 2
    /\ analysis_log[1].total = 3

----------------------------------------------------------------------------
(* Cancellation (checked under SpecCancel) *)

\* C20: once an in-flight analyze_article_content call is cancelled, no
\* further chunk-analysis or synthesis call is issued for the document and
\* the partial results are discarded: the call yields no result.
C20_CancelStopsCalls ==
    cancelled_at >= 0 =>
        /\ analyze_calls + synth_calls = cancelled_at
        /\ pc = "cancelled"
        /\ result = NoResult

\* a call was cancelled with some chunks analysed and others still to do
C20_Witness ==
    /\ pc = "cancelled"
    /\ Len(summaries) >= 1
    /\ Len(summaries) < Len(chunks)

----------------------------------------------------------------------------
(* Properties of get_model_context_limit (checked under SpecLimit) *)

\* the substrings the heuristics look for in the lower-cased identifier
Markers == {Gpt4o, Gpt4Turbo, Gpt4_1106, Gpt4_0125, Gpt4, Gpt35Turbo, Davinci}

Unknown(model) ==
    /\ ~ InTable(model)
    /\ \A m \in Markers : ~ Contains(lower(model), m)

\* C15: get_model_context_limit returns a positive integer for every model
\* identifier, and it returns 4096 with one warning exactly when the
\* identifier is neither a key of the table nor holds, lower-cased, one of
\* the substrings of the heuristics; otherwise it warns not at all.
C15_LimitTotal ==
    /\ pc \in {"limit_start", "limit_returned"}
    /\ pc = "limit_start" => ENABLED GetLimit
    /\ pc = "limit_returned" =>
          /\ limit_out \in Nat \ {0}
          /\ limit_out = 4096 <=> Unknown(model_id)
          /\ warnings = (IF Unknown(model_id) THEN 1 ELSE 0)

\* an unknown, non-empty identifier got the fallback
C15_Witness ==
    /\ pc = "limit_returned"
    /\ Len(model_id) > 0
    /\ Unknown(model_id)
    /\ limit_out = 4096
    /\ warnings = 1

\* the lower-cased identifier holds the marker
Has(marker) == Contains(lower(model_id), marker)

\* one of the markers of the 128k class
Has128k == Has(Gpt4o) \/ Has(Gpt4Turbo) \/ Has(Gpt4_1106) \/ Has(Gpt4_0125)

\* C25: an identifier that is a key of the table gets the table's limit;
\* any other gets, by its lower-cased form: 128000 if it holds 'gpt-4o',
\* 'gpt-4-turbo', 'gpt-4-1106' or 'gpt-4-0125' (which all hold 'gpt-4');
\* otherwise 8192 if it holds 'gpt-4'; otherwise 16385 if it holds
\* 'gpt-3.5-turbo'; otherwise, if it holds 'davinci', 8001 with 'code' and
\* 4097 without.
C25_OrderedResolution ==
    pc = "limit_returned" =>
        IF \E e \in model_limits : e.id = model_id
        THEN \A e \in model_limits : e.id = model_id => limit_out = e.limit
        ELSE /\ Has128k => limit_out = 128000
             /\ (~ Has128k /\ Has(Gpt4)) => limit_out = 8192
             /\ (~ Has(Gpt4) /\ Has(Gpt35Turbo)) => limit_out = 16385
             /\ (~ Has(Gpt4) /\ ~ Has(Gpt35Turbo) /\ Has(Davinci)) =>
                   limit_out = (IF Has(Code) THEN 8001 ELSE 4097)

\* an identifier in upper case, not in the table, that holds a 128k marker
\* and so 'gpt-4' as well, and 'davinci' besides, got 128000
C25_Witness ==
    /\ pc = "limit_returned"
    /\ \A e \in model_limits : e.id # model_id
    /\ model_id # lower(model_id)
    /\ Has(Gpt4Turbo)
    /\ Has(Davinci)
    /\ limit_out = 128000

----------------------------------------------------------------------------
(* Properties of NewsScraper (checked under SpecScrape) *)

\* the tasks inside "async with self.semaphore" at an await
PastSemaphore == {t \in Tasks : task_pc[t] \in {"fetching", "analyzing", "sleeping"}}

\* C16: at no time are more than settings.max_concurrent_requests tasks of
\* one scrape_urls call past the semaphore (fetching a page, running the
\* analysis, or in the rate-limit sleep that follows it).
C16_ConcurrencyBounded ==
    Cardinality(PastSemaphore) <= max_concurrent_requests

\* the ceiling is reached with a fetch and an analysis under way and a
\* third task kept waiting
C16_Witness ==
    /\ max_concurrent_requests = 2
    /\ Cardinality(PastSemaphore) = 2
    /\ \E t \in Tasks : task_pc[t] = "fetching"
    /\ \E t \in Tasks : task_pc[t] = "analyzing"
    /\ \E t \in Tasks : task_pc[t] = "waiting"

Succeeded == {t \in Tasks : task_result[t].t = "article"}

\* the k-th smallest element of a set of numbers
Kth(S, k) == CHOOSE x \in S : Cardinality({y \in S : y < x}) = k - 1

\* C17: the list scrape_urls returns holds, for each URL whose scrape gave
\* an article, that article, placed in the order of the URLs in the input,
\* whatever the order in which the tasks completed.
C17_ResultsInInputOrder ==
    pc = "scrape_returned" =>
        /\ Len(scrape_result) = Cardinality(Succeeded)
        /\ \A i \in 1..Len(scrape_result) :
              scrape_result[i] = task_result[Kth(Succeeded, i)]

\* two different articles returned, the later URL's task having completed
\* first, and a failed URL between them left out
C17_Witness ==
    /\ pc = "scrape_returned"
    /\ Len(scrape_result) = 2
    /\ scrape_result[1] # scrape_result[2]
    /\ Len(urls) = 3
    /\ task_result[2] = ScrapeNone
    /\ \E i, j \in 1..Len(completion_order) :
          i < j /\ completion_order[i] = 3 /\ completion_order[j] = 1

\* the tasks whose URL or whose fetch, parse, analysis or Article met a failure
Failed ==
    {t \in Tasks : \/ ~ is_valid_url(urls[t])
                   \/ task_log[t].fetch \notin {"none", "ok"}
                   \/ task_log[t].analysis \notin {"none", "ok"}}

\* C18: a completed scrape_url task has returned, never raised; it returned
\* None if its URL was invalid (and then without a fetch or an analysis
\* call), if its fetch or parse raised, if the page had no title or text,
\* or if the analysis or the Article raised; otherwise it returned the
\* article of its own URL, whatever became of the other tasks.
C18_FailuresYieldNone ==
    \A t \in Tasks :
        /\ task_result[t].t # "exception"
        /\ ~ is_valid_url(urls[t]) =>
              task_log[t].fetches = 0 /\ task_log[t].analyses = 0
        /\ task_pc[t] = "done" =>
              task_result[t] = (IF t \in Failed THEN ScrapeNone
                                ELSE ArticleOf(strip(urls[t])))

\* one batch in which an invalid URL, a failed fetch and a success are done
C18_Witness ==
    /\ \A t \in Tasks : task_pc[t] = "done"
    /\ \E t \in Tasks : ~ is_valid_url(urls[t]) /\ task_result[t] = ScrapeNone
    /\ \E t \in Tasks :
          task_log[t].fetch = "raises" /\ task_result[t] = ScrapeNone
    /\ \E t \in Tasks : task_result[t].t = "article"

----------------------------------------------------------------------------
(* Properties of ToolkitManager (checked under SpecToolkit) *)

Served == {c \in Callers : caller_pc[c] = "done"}

----------------------------------------------------------------------------
(* Properties of concurrent invocations (checked under SpecConc) *)

\* what analyze_article_content comes to when it runs alone on the text
\* and meets the analysis responses resps and the synthesis response sresp
Alone(text, resps, sresp) ==
    IF count_tokens(text) <= max_tokens - 1000
    THEN [pc |-> "done", result |-> analyze_single_article(resps[1])]
    ELSE LET cs == chunk_content(text, max_tokens)
             part(i) == analyze_article_chunk(resps[i], i - 1)
             sums == [i \in 1..Len(cs) |-> part(i).summary]
             tls == [i \in 1..Len(cs) |-> part(i).topics]
         IN IF cs = <<>>
            THEN [pc |-> "done", result |-> EmptyMergeResult]
            ELSE IF sresp.kind = "raise" /\ JoinRaises(sums)
                 THEN [pc |-> "raised", result |-> NoResult]
                 ELSE [pc |-> "done",
                       result |-> Analysis(Str(strip(final_summary(sresp, sums))),
                                           merge_topics(tls))]

Finished(d) == frames[d].pc \in {"done", "raised"}

\* C21: under every interleaving of concurrent invocations at their awaits,
\* an invocation that has ended has the outcome it would have had alone on
\* its document with the responses its own external calls met.
C21_ConcurrentEqualsAlone ==
    \A d \in Invocations :
        Finished(d) =>
            LET alone == Alone(frames[d].content, frames[d].responses,
                               frames[d].synth_response)
            IN /\ frames[d].pc = alone.pc
               /\ frames[d].result = alone.result

\* an invocation has run from start to end on a chunked document while
\* another, with a first chunk already analysed differently, is still in
\* its chunk loop
C21_Witness ==
    /\ Len(frames) = 2
    /\ frames[1].pc = "chunk_await"
    /\ Len(frames[1].summaries) = 1
    /\ frames[2].pc = "done"
    /\ Len(frames[2].chunks) >= 2
    /\ frames[2].responses[1] # frames[1].responses[1]
    /\ frames[2].result.topics # <<>>

----------------------------------------------------------------------------
(* Properties of ToolkitManager with close_browser (checked under SpecClose) *)

\* no get_toolkit and no close_browser call is in progress
Quiescent ==
    \A c \in Callers :
        caller_pc[c] \in {"idle", "close_idle", "done", "raised", "closed"}

\* C29: whenever no get_toolkit or close_browser call is in progress,
\* _toolkit is set exactly when _browser and _playwright are set, a cached
\* toolkit wraps the browser _browser names and neither that browser nor
\* the Playwright has been closed or stopped, and every Playwright that was
\* started and not stopped is the one _playwright names.
C29_FieldsConsistentWhenQuiet ==
    Quiescent =>
        /\ cls_toolkit # NoToolkit <=> (cls_browser # 0 /\ cls_playwright # 0)
        /\ cls_toolkit # NoToolkit =>
              /\ cls_toolkit.browser = cls_browser
              /\ browser_state[cls_browser] = "running"
              /\ playwright_state[cls_playwright] = "running"
        /\ \A p \in 1..starts :
              playwright_state[p] = "running" => p = cls_playwright

----------------------------------------------------------------------------
(* Properties of ChromaDBClient._chunk_text (checked under SpecChunkText) *)

\* C27: every chunk returned by _chunk_text(text, max_tokens) costs at most
\* max_tokens tokens, whatever the text.
C27_ChunksWithinMaxTokens ==
    pc = "chunk_text_returned" =>
        \A i \in 1..Len(text_chunks) :
            _count_tokens(text_chunks[i]) <= chunk_limit

----------------------------------------------------------------------------
(* Properties of ChromaDBClient.store_article (checked under SpecStore) *)

\* the articles for which store_article returned True
StoredArticles ==
    {store_log[k].article :
        k \in {j \in 1..Len(store_log) : store_log[j].returned}}

\* C26: after n distinct articles were stored successfully into an empty
\* collection, count() returns n.
C26_CountIsNumberOfArticles ==
    pc = "store" => count = Cardinality(StoredArticles)

\* C28: once store_article(article) has returned True, article_exists finds
\* article.id and get_article(article.id) returns the article's document.
C28_StoredArticleIsFound ==
    pc = "store" =>
        \A article \in StoredArticles :
            /\ article_exists(article.id)
            /\ get_article(article.id).document = full_document(article)

----------------------------------------------------------------------------
(* Termination of scrape_urls (checked under SpecScrapeFair) *)

\* task t is waiting for a permit
Waiting(t) == t \in Tasks /\ task_pc[t] = "waiting"

\* task t has acquired the semaphore
Acquired(t) ==
    t \in Tasks /\ task_pc[t] \in {"fetching", "analyzing", "sleeping", "done"}

\* every waiting task acquires, scrape_urls returns, and the permits are all
\* free from then on
ScrapeTerminates ==
    /\ \A t \in 1..MaxFairUrls : Waiting(t) ~> Acquired(t)
    /\ <>(pc = "scrape_returned")
    /\ [](pc = "scrape_returned" => semaphore = max_concurrent_requests)

\* C30 as stated: whatever the configured ceiling, every waiting task
\* eventually acquires the semaphore, scrape_urls eventually returns, and all
\* the permits are free afterwards.
C30_AlwaysTerminates == ScrapeTerminates

\* C30, amended: when settings.max_concurrent_requests is at least 1, every
\* waiting task eventually acquires the semaphore, scrape_urls eventually
\* returns, and all the permits are free afterwards.
C30_TerminatesGivenAPermit ==
    (max_concurrent_requests >= 1) => ScrapeTerminates

\* scrape_urls has returned with all permits free after more valid URLs than
\* permits were fetched (so that a task waited), one task having left by an
\* exception or an empty page and one with its Article
C30_Witness ==
    /\ pc = "scrape_returned"
    /\ max_concurrent_requests >= 1
    /\ semaphore = max_concurrent_requests
    /\ Len(urls) > max_concurrent_requests
    /\ \A t \in Tasks : task_log[t].fetches = 1
    /\ \E t \in Tasks : task_result[t] = ScrapeNone
    /\ \E t \in Tasks : isinstance_Article(task_result[t])

====
